---- MODULE Spec2Model ----
(***************************************************************************)
(* A model of the discovery and deletion engine of spacecleanserpro:       *)
(* DiscoveryScanner (src/scanner.py) and Cleaner (src/cleaner.py).         *)
(*                                                                         *)
(* Paths are Windows paths as pathlib sees them: a sequence of parts, the  *)
(* first being the anchor ("C:\"), each part a pair <<base, n>> whose text *)
(* is the characters of base followed by the decimal digits of n when      *)
(* n > 0 (so that a directory can hold f1, f2, ... without one table entry *)
(* per file).  Text is a sequence of one-character strings, so that        *)
(* str(path).lower() and the substring test are computed, not assumed.     *)
(***************************************************************************)
EXTENDS Integers, Sequences, FiniteSets, TLC

VARIABLES
    ex_pc, ex_path, ex_result,          \* one call of _should_exclude_path
    fs,                                 \* the volume: which family, and its varied files
    dup_pc, dup_cancel, dup_stack, dup_files, dup_dirpath,
    file_count, processed_count, hash_groups, dup_result,
    dup_stat,                           \* stat of line 536 for the file in hand
    dup_log,                            \* what scan_duplicates did, for the properties
    lf_pc, lf_cancel, lf_stack, lf_files, lf_dirpath,
    threshold_mb, large_files, lf_processed, lf_result,
    lf_log,
    del_platform,                       \* sys.platform, "off" when the run deletes nothing
    del_fs,                             \* the paths that exist, for Cleaner
    del_locked, del_unreadable,         \* files in use; files whose stat fails
    del_hist,                           \* the calls of delete_folder so far, with what they returned
    batch_pc,                           \* where delete_folders_batch stands
    folders, progress_callback,         \* its arguments: the FolderInfo list; whether a callback is given
    idx, results,                       \* its locals
    batch_log,                          \* the callbacks and deletions of the batch, in order
    mv_on,                              \* the run is one of move_file calls
    mv_fs,                              \* what each path is, for move_file: absent, a directory, a file with content
    mv_hist,                            \* the calls of move_file so far, with what they returned
    self_cancel_event,                  \* DiscoveryScanner.cancel_event, the scanner's own token
    dup_cancel_given, lf_cancel_given,  \* whether each scan was handed a cancel_event
    mv_race,                            \* two move_file calls on two workers: the paths, each call's position
    btn,                                \* DiscoveryPanel: state of the three scan buttons
    progress_frame,                     \* whether progress_frame (with its Cancel button) is packed
    cancel_events,                      \* duplicate_cancel_event, large_file_cancel_event
    threads,                            \* the scan threads started, per kind
    after_queue                         \* the callbacks handed to self.after(0, ...), not yet run

exVars  == <<ex_pc, ex_path, ex_result>>
dupVars == <<dup_pc, dup_cancel, dup_stack, dup_files, dup_dirpath,
             file_count, processed_count, hash_groups, dup_result, dup_stat, dup_log>>
lfVars  == <<lf_pc, lf_cancel, lf_stack, lf_files, lf_dirpath,
             threshold_mb, large_files, lf_processed, lf_result, lf_log>>
delVars == <<del_platform, del_fs, del_locked, del_unreadable, del_hist>>
batchVars == <<batch_pc, folders, progress_callback, idx, results, batch_log>>
mvVars  == <<mv_on, mv_fs, mv_hist>>
tokVars == <<self_cancel_event, dup_cancel_given, lf_cancel_given>>
raceVars == <<mv_race>>
panelVars == <<btn, progress_frame, cancel_events, threads, after_queue>>
vars    == <<exVars, fs, dupVars, lfVars, delVars, batchVars, mvVars, tokVars, raceVars, panelVars>>

----------------------------------------------------------------------------
(* Bounds of the model *)

\* parts below the anchor of the paths handed to _should_exclude_path
MaxDepth == 2
\* files f1..fNumFiller of C:\Users\data
NumFiller == 50
\* the counters of the logs stop counting at CountCap
CountCap == 2
\* calls of delete_folder in one run
MaxCalls == 2
\* items of one batch
MaxBatch == 2
\* calls of move_file in one run
MaxMoves == 2
\* scans of each kind that DiscoveryPanel starts in one run
MaxScans == 2

----------------------------------------------------------------------------
(* Text *)

NameChars(n) ==
    CASE n = "C:\\" -> <<"C",":","\\">>
      [] n = "D:\\" -> <<"D",":","\\">>
      [] n = "Users" -> <<"U","s","e","r","s">>
      [] n = "Windows" -> <<"W","i","n","d","o","w","s">>
      [] n = "WINDOWS" -> <<"W","I","N","D","O","W","S">>
      [] n = "Program Files" -> <<"P","r","o","g","r","a","m"," ","F","i","l","e","s">>
      [] n = ".gradle" -> <<".","g","r","a","d","l","e">>
      [] n = "$Recycle.Bin" -> <<"$","R","e","c","y","c","l","e",".","B","i","n">>
      [] n = "System Volume Information" -> <<"S","y","s","t","e","m"," ","V","o","l","u","m","e"," ","I","n","f","o","r","m","a","t","i","o","n">>
      [] n = "data" -> <<"d","a","t","a">>
      [] n = "a.bin" -> <<"a",".","b","i","n">>
      [] n = "b.bin" -> <<"b",".","b","i","n">>
      [] n = "c.bin" -> <<"c",".","b","i","n">>
      [] n = ".hid.bin" -> <<".","h","i","d",".","b","i","n">>
      [] n = "x.bin" -> <<"x",".","b","i","n">>
      [] n = "y.bin" -> <<"y",".","b","i","n">>
      [] n = "z.bin" -> <<"z",".","b","i","n">>
      [] n = "f" -> <<"f">>
      [] n = ".npm" -> <<".","n","p","m">>

DigitChars == <<"0","1","2","3","4","5","6","7","8","9">>

RECURSIVE Decimal(_)
Decimal(n) ==
    IF n < 10 THEN <<DigitChars[n + 1]>>
    ELSE Decimal(n \div 10) \o <<DigitChars[(n % 10) + 1]>>

\* the text of one part of a path
PartChars(c) == NameChars(c[1]) \o (IF c[2] = 0 THEN <<>> ELSE Decimal(c[2]))

UpperLetters == <<"A","B","C","D","E","F","G","H","I","J","K","L","M","N","O","P","Q","R","S","T","U","V","W","X","Y","Z">>
LowerLetters == <<"a","b","c","d","e","f","g","h","i","j","k","l","m","n","o","p","q","r","s","t","u","v","w","x","y","z">>

LowerTable ==
    [ch \in {UpperLetters[i] : i \in 1..26} |->
        LowerLetters[CHOOSE i \in 1..26 : UpperLetters[i] = ch]]

\* str.lower() on one character (ASCII)
LowerChar(ch) == IF ch \in DOMAIN LowerTable THEN LowerTable[ch] ELSE ch

\* str.lower()
Lower(s) == [i \in 1..Len(s) |-> LowerChar(s[i])]

\* Python's  sub in s
StrContains(s, sub) ==
    \E i \in 0..(Len(s) - Len(sub)) :
        \A k \in 1..Len(sub) : s[i + k] = sub[k]

\* Python's  s.startswith(ch)  for a one-character prefix
StartsWith(s, ch) == Len(s) >= 1 /\ s[1] = ch

RECURSIVE JoinParts(_, _)
\* "\".join of the parts i..Len(p) of p
JoinParts(p, i) ==
    IF i > Len(p) THEN <<>>
    ELSE PartChars(p[i]) \o (IF i < Len(p) THEN <<"\\">> ELSE <<>>) \o JoinParts(p, i + 1)

\* str(path) of a WindowsPath: the anchor, then the parts joined by "\"
PathStr(p) == PartChars(p[1]) \o JoinParts(p, 2)

\* path.name: the last part, "" for a bare anchor
PathName(p) == IF Len(p) > 1 THEN PartChars(p[Len(p)]) ELSE <<>>

\* Path(dirpath) / name
PathJoin(p, c) == Append(p, c)

----------------------------------------------------------------------------
(* DiscoveryScanner._should_exclude_path *)

EXCLUDED_PATHS ==
    << <<"C",":","\\","W","i","n","d","o","w","s">>,
       <<"C",":","\\","P","r","o","g","r","a","m"," ","F","i","l","e","s">>,
       <<"C",":","\\","P","r","o","g","r","a","m"," ","F","i","l","e","s"," ","(","x","8","6",")">>,
       <<"C",":","\\","P","r","o","g","r","a","m","D","a","t","a">>,
       <<"$","R","e","c","y","c","l","e",".","B","i","n">>,
       <<"S","y","s","t","e","m"," ","V","o","l","u","m","e"," ","I","n","f","o","r","m","a","t","i","o","n">>,
       <<"C",":","\\","$","R","e","c","y","c","l","e",".","B","i","n">>,
       <<"C",":","\\","S","y","s","t","e","m"," ","V","o","l","u","m","e"," ","I","n","f","o","r","m","a","t","i","o","n">> >>

\* excluded.lower() of every entry
ExcludedLower == [e \in 1..Len(EXCLUDED_PATHS) |-> Lower(EXCLUDED_PATHS[e])]

\* a plausible slip: the path is not lower-cased before the substring test
ShouldExcludeNoLower(path) ==
    \/ \E e \in 1..Len(EXCLUDED_PATHS) : StrContains(PathStr(path), ExcludedLower[e])
    \/ StartsWith(PathName(path), ".")
    \/ StartsWith(PathName(path), "$")

_should_exclude_path(path) ==
    LET path_str == Lower(PathStr(path))
    IN  \/ \E e \in 1..Len(EXCLUDED_PATHS) : StrContains(path_str, ExcludedLower[e])
        \/ StartsWith(PathName(path), ".")
        \/ StartsWith(PathName(path), "$")

----------------------------------------------------------------------------
(* The volume that os.walk sees from C:\ *)

N(name) == <<name, 0>>

\* root_path = Path("C:\\")
RootPath == << N("C:\\") >>

UsersDir      == RootPath \o << N("Users") >>
GradleDir     == UsersDir \o << N(".gradle") >>
GradleDataDir == GradleDir \o << N("data") >>
DataDir       == UsersDir \o << N("data") >>
UsersWinDir   == UsersDir \o << N("Windows") >>
WindowsDir    == RootPath \o << N("WINDOWS") >>
RecycleDir    == RootPath \o << N("$Recycle.Bin") >>
XBin          == GradleDataDir \o << N("x.bin") >>

\* the sub-directories of d, in the order the directory lists them
DirNames(d) ==
    CASE d = RootPath  -> << N("Users"), N("WINDOWS"), N("$Recycle.Bin") >>
      [] d = UsersDir  -> << N(".gradle"), N("data"), N("Windows") >>
      [] d = GradleDir -> << N("data") >>
      [] OTHER         -> << >>

\* the files of d, in the order the directory lists them
FileNames(d) ==
    CASE d = RootPath      -> << N("a.bin") >>
      [] d = UsersDir      -> << N(".hid.bin"), N("b.bin") >>
      [] d = GradleDataDir -> << N("x.bin") >>
      [] d = DataDir       -> [i \in 1..NumFiller |-> <<"f", i>>]
      [] d = UsersWinDir   -> << N("c.bin") >>
      [] d = WindowsDir    -> << N("y.bin") >>
      [] d = RecycleDir    -> << N("z.bin") >>
      [] OTHER             -> << >>

AllDirs == {RootPath, UsersDir, GradleDir, GradleDataDir, DataDir, UsersWinDir,
            WindowsDir, RecycleDir}

FilesIn(d) == {PathJoin(d, FileNames(d)[i]) : i \in 1..Len(FileNames(d))}

AllFiles == UNION {FilesIn(d) : d \in AllDirs}

\* the files whose content and readability vary from volume to volume
VariedFiles == {PathJoin(RootPath, N("a.bin")), PathJoin(UsersDir, N("b.bin")),
                PathJoin(UsersWinDir, N("c.bin"))}

FillerFiles == FilesIn(DataDir)

MiB == 1024 * 1024

\* A file is [st_size, md5, access]: md5 names the file's bytes (files of equal
\* bytes, and only those, share it); access is "ok", "nostat" (stat raises
\* OSError) or "noread" (stat works, open or read raises).
File(size, digest, access) == [st_size |-> size, md5 |-> digest, access |-> access]

\* volumes for the duplicate scan: sizes around the 1 MiB floor
DupKinds ==
    { File(MiB - 1, <<"s", 0>>, "ok"),
      File(MiB,     <<"m", 0>>, "ok"),
      File(2 * MiB, <<"d", 0>>, "ok"),
      File(2 * MiB, <<"d", 0>>, "nostat"),
      File(2 * MiB, <<"d", 0>>, "noread"),
      File(MiB,     <<"f", 2>>, "ok") }

\* f1 and f2 have the same bytes, f3 and f4 too, ...
DupFiller(i) == File(MiB, <<"f", (i + 1) \div 2>>, "ok")

\* the files under excluded directories, and the hidden one, are 2 MiB of the same bytes
DupFixed == File(2 * MiB, <<"d", 0>>, "ok")

\* b.bin takes fewer shapes than a.bin and c.bin, which keeps the volumes few
DupKindsB ==
    { File(MiB - 1, <<"s", 0>>, "ok"),
      File(2 * MiB, <<"d", 0>>, "ok"),
      File(2 * MiB, <<"d", 0>>, "noread") }

DupVolumes ==
    { v \in [kind : {"dup"}, varied : [VariedFiles -> DupKinds]] :
          v.varied[PathJoin(UsersDir, N("b.bin"))] \in DupKindsB }

\* volumes for the large-file scan: sizes around the thresholds the panel offers
LargeKinds ==
    { File(100 * MiB - 1, <<"s", 0>>, "ok"),
      File(100 * MiB,     <<"m", 0>>, "ok"),
      File(500 * MiB,     <<"d", 0>>, "ok"),
      File(500 * MiB,     <<"d", 0>>, "nostat"),
      File(1024 * MiB,    <<"g", 0>>, "ok") }

LargeFiller(i) == File(IF i % 2 = 1 THEN 100 * MiB ELSE 500 * MiB, <<"f", i>>, "ok")

LargeFixed == File(1024 * MiB, <<"d", 0>>, "ok")

LargeKindsB ==
    { File(100 * MiB - 1, <<"s", 0>>, "ok"),
      File(1024 * MiB,    <<"g", 0>>, "ok") }

LargeVolumes ==
    { v \in [kind : {"large"}, varied : [VariedFiles -> LargeKinds]] :
          v.varied[PathJoin(UsersDir, N("b.bin"))] \in LargeKindsB }

\* the file at path p of the volume fs
FileAt(p) ==
    IF p \in VariedFiles THEN fs.varied[p]
    ELSE IF p[Len(p)][1] = "f"
         THEN (IF fs.kind \in {"dup", "live"} THEN DupFiller(p[Len(p)][2])
               ELSE LargeFiller(p[Len(p)][2]))
         ELSE (IF fs.kind \in {"dup", "live"} THEN DupFixed ELSE LargeFixed)

\* the filenames os.walk yields for directory d of the volume fs: those of
\* FileNames, C:\Users\data being empty on the small volume and holding the
\* first half of its files on the live volume until the others are created
Filenames(d) ==
    IF d # DataDir THEN FileNames(d)
    ELSE IF fs.kind = "small" THEN << >>
    ELSE IF fs.kind = "live" /\ DataDir \notin fs.changed
         THEN SubSeq(FileNames(d), 1, NumFiller \div 2)
    ELSE FileNames(d)

\* the thresholds DiscoveryPanel._start_large_file_scan passes that fit the sizes above
ThresholdChoices == {100, 500}

----------------------------------------------------------------------------
(* Pieces shared by the walks *)

None == "None"

\* lines 487-488 and 610-611: the token a scan polls is the cancel_event it was
\* handed, and the scanner's own cancel_event when it was handed none
DupTokenSet == IF dup_cancel_given THEN dup_cancel ELSE self_cancel_event
LfTokenSet  == IF lf_cancel_given THEN lf_cancel ELSE self_cancel_event

\* the scanner as discovery_panel uses it: every scan is handed a token
TokensGiven ==
    /\ self_cancel_event = FALSE
    /\ dup_cancel_given = TRUE
    /\ lf_cancel_given = TRUE

\* the callback made one file late: at 1, 51, ... instead of 50, 100, ...
ProgressDueLate(count, every) == (count - 1) % every = 0

\* lines 569 and 663: processed_count % 50 == 0, processed_count % 25 == 0
ProgressDue(count, every) == count % every = 0

\* n + 1, stopping at CountCap
Bump(n) == IF n < CountCap THEN n + 1 ELSE n

\* file_path.stat() succeeds
StatOk(path) == FileAt(path).access # "nostat"

\* no os.stat_result in hand
NoStat == [ok |-> FALSE, st_size |-> 0]

\* file_path.stat(): the result, as far as the scans read it, or the OSError
Stat(path) ==
    IF StatOk(path) THEN [ok |-> TRUE, st_size |-> FileAt(path).st_size] ELSE NoStat

\* hash_file without its except clause standing for a digest of what was read
HashFileIgnoringErrors(file_path) == FileAt(file_path).md5

\* DiscoveryScanner.hash_file: the MD5 of the bytes, None when open or read fails
hash_file(file_path) ==
    IF FileAt(file_path).access = "ok" THEN FileAt(file_path).md5 ELSE None

\* _should_exclude_path on the paths of the volume, computed once for all walks
ExcludeTable == [p \in AllDirs \cup AllFiles |-> _should_exclude_path(p)]

\* self._should_exclude_path(path), as the walks call it
IsExcluded(path) == ExcludeTable[path]

\* line 501 left out: nothing is pruned
PruneNothing(dirpath, dirnames) == dirnames

\* dirnames[:] = [d for d in dirnames if not self._should_exclude_path(Path(dirpath) / d)]
PruneDirnames(dirpath, dirnames) ==
    SelectSeq(dirnames, LAMBDA d : ~IsExcluded(PathJoin(dirpath, d)))

\* os.walk, top-down: the directories to visit after dirpath has been yielded
\* and pruned are its remaining sub-directories, in order, then what was pending
WalkDescend(dirpath, pending) ==
    LET kept == PruneDirnames(dirpath, DirNames(dirpath))
    IN  [i \in 1..Len(kept) |-> PathJoin(dirpath, kept[i])] \o pending

RECURSIVE InsertDescTiesFirst(_, _)
\* a sort that is not stable: x goes in front of the pairs of equal key
InsertDescTiesFirst(sorted, x) ==
    IF sorted = <<>> THEN <<x>>
    ELSE IF Head(sorted)[1] > x[1]
         THEN <<Head(sorted)>> \o InsertDescTiesFirst(Tail(sorted), x)
         ELSE <<x>> \o sorted

RECURSIVE InsertDesc(_, _)
\* the pair x = <<key, element>> placed behind every pair whose key is at least x's
InsertDesc(sorted, x) ==
    IF sorted = <<>> THEN <<x>>
    ELSE IF Head(sorted)[1] >= x[1]
         THEN <<Head(sorted)>> \o InsertDesc(Tail(sorted), x)
         ELSE <<x>> \o sorted

RECURSIVE SortPairsDesc(_, _, _)
SortPairsDesc(pairs, i, acc) ==
    IF i > Len(pairs) THEN acc
    ELSE SortPairsDesc(pairs, i + 1, InsertDesc(acc, pairs[i]))

\* list.sort(key=..., reverse=True) on the pairs <<key, element>>: the elements
\* by descending key, those of equal key in the order they had
SortDesc(keyed) ==
    LET sorted == SortPairsDesc(keyed, 1, <<>>)
    IN  [i \in 1..Len(keyed) |-> sorted[i][2]]

----------------------------------------------------------------------------
(* DiscoveryScanner.scan_duplicates                                         *)
(*                                                                          *)
(* dup_pc: "off" (no duplicate scan in this run), "called" (invoked, line   *)
(* 487 not yet run), "count" (first pass), "hash" (second pass, at the head *)
(* of the directory loop or of the file loop), "file" (second pass, past    *)
(* the poll of line 528, before line 531), "done" (returned).               *)
(* dup_cancel is the threading.Event passed as cancel_event; another thread *)
(* sets it at any moment.                                                   *)
(***************************************************************************)

MinDupSize == 1024 * 1024

DupProgressEvery == 50

FileInfo(path, size) == [path |-> path, size_bytes |-> size]

\* DuplicateGroup.get_wasted_space
get_wasted_space(g) ==
    IF Len(g.files) < 2 THEN 0 ELSE g.size_bytes * (Len(g.files) - 1)

\* hash_groups is a dict, which keeps its keys in the order of first insertion:
\* a sequence of [file_hash, files]
HasHash(groups, h) == \E i \in 1..Len(groups) : groups[i].file_hash = h

\* lines 562-564 with the bucket overwritten instead of appended to
AddReplacingBucket(groups, h, info) ==
    IF HasHash(groups, h)
    THEN [i \in 1..Len(groups) |->
             IF groups[i].file_hash = h
             THEN [groups[i] EXCEPT !.files = <<info>>]
             ELSE groups[i]]
    ELSE Append(groups, [file_hash |-> h, files |-> <<info>>])

\* hash_groups[file_hash].append(file_info), creating the bucket when absent
AddToGroups(groups, h, info) ==
    IF HasHash(groups, h)
    THEN [i \in 1..Len(groups) |->
             IF groups[i].file_hash = h
             THEN [groups[i] EXCEPT !.files = Append(@, info)]
             ELSE groups[i]]
    ELSE Append(groups, [file_hash |-> h, files |-> <<info>>])

\* lines 578-588: the buckets of two files or more, as DuplicateGroup objects
KeepAllBuckets(groups) ==
    [i \in 1..Len(groups) |->
        [file_hash |-> groups[i].file_hash,
         size_bytes |-> groups[i].files[1].size_bytes,
         files |-> groups[i].files]]

ToDuplicateGroups(groups) ==
    LET kept == SelectSeq(groups, LAMBDA b : Len(b.files) >= 2)
    IN  [i \in 1..Len(kept) |->
            [file_hash |-> kept[i].file_hash,
             size_bytes |-> kept[i].files[1].size_bytes,
             files |-> kept[i].files]]

\* lines 578-593: what scan_duplicates returns for the buckets collected
DupReturnValue(groups) ==
    LET duplicate_groups == ToDuplicateGroups(groups)
    IN  SortDesc([i \in 1..Len(duplicate_groups) |->
                     <<get_wasted_space(duplicate_groups[i]), duplicate_groups[i]>>])

DupLogInit ==
    [walked |-> {}, counted |-> {}, hashed |-> {}, callbacks |-> <<>>,
     requested |-> FALSE, observed |-> FALSE, setAtPoll |-> FALSE,
     examinedAfterSet |-> 0, cbWhileSet |-> 0, cbAfterRequest |-> 0, cbAfterObserved |-> 0,
     cbLate |-> 0]

DupOff ==
    /\ dup_pc = "off"
    /\ dup_cancel = FALSE
    /\ dup_stack = <<>>
    /\ dup_files = <<>>
    /\ dup_dirpath = RootPath
    /\ file_count = 0
    /\ processed_count = 0
    /\ hash_groups = <<>>
    /\ dup_result = <<>>
    /\ dup_stat = NoStat
    /\ dup_log = DupLogInit

\* scan_duplicates(root_path, progress_callback, cancel_event) has been invoked
DupCalled ==
    /\ dup_pc = "called"
    /\ dup_cancel = FALSE
    /\ dup_stack = <<>>
    /\ dup_files = <<>>
    /\ dup_dirpath = RootPath
    /\ file_count = 0
    /\ processed_count = 0
    /\ hash_groups = <<>>
    /\ dup_result = <<>>
    /\ dup_stat = NoStat
    /\ dup_log = DupLogInit

\* lines 487-495: cancel_event.clear() and the locals
DupBegin ==
    /\ dup_pc = "called"
    /\ dup_pc' = "count"
    /\ IF dup_cancel_given
       THEN dup_cancel' = FALSE /\ UNCHANGED self_cancel_event
       ELSE self_cancel_event' = FALSE /\ UNCHANGED dup_cancel
    /\ UNCHANGED <<dup_cancel_given, lf_cancel_given>>
    /\ hash_groups' = <<>>
    /\ file_count' = 0
    /\ processed_count' = 0
    /\ dup_stack' = <<RootPath>>
    /\ dup_files' = <<>>
    /\ UNCHANGED <<dup_dirpath, dup_result, dup_log>>
    /\ UNCHANGED dup_stat
    /\ UNCHANGED <<exVars, fs, lfVars, delVars, batchVars, mvVars, raceVars, panelVars>>

\* lines 499-501: os.walk yields the next directory of the first pass
CountDir ==
    /\ dup_pc = "count"
    /\ dup_files = <<>>
    /\ dup_stack # <<>>
    /\ LET d == Head(dup_stack)
       IN  /\ dup_dirpath' = d
           /\ dup_stack' = WalkDescend(d, Tail(dup_stack))
           /\ dup_files' = Filenames(d)
           /\ dup_log' = [dup_log EXCEPT !.walked = @ \cup {d}]
    /\ UNCHANGED <<dup_pc, dup_cancel, file_count, processed_count, hash_groups, dup_result>>
    /\ UNCHANGED dup_stat
    /\ UNCHANGED <<exVars, fs, lfVars, delVars, batchVars, mvVars, tokVars, raceVars, panelVars>>

\* lines 503-514: one file of the first pass
CountFile ==
    /\ dup_pc = "count"
    /\ dup_files # <<>>
    /\ LET file_path == PathJoin(dup_dirpath, Head(dup_files))
           examined == ~IsExcluded(file_path)
           counts == /\ examined
                     /\ StatOk(file_path)
                     /\ ~(FileAt(file_path).st_size < MinDupSize)
       IN  /\ file_count' = IF counts THEN file_count + 1 ELSE file_count
           /\ dup_log' = [dup_log EXCEPT
                  !.counted = IF counts THEN @ \cup {file_path} ELSE @,
                  !.examinedAfterSet = IF examined /\ DupTokenSet THEN Bump(@) ELSE @]
    /\ dup_files' = Tail(dup_files)
    /\ UNCHANGED <<dup_pc, dup_cancel, dup_stack, dup_dirpath, processed_count,
                   hash_groups, dup_result>>
    /\ UNCHANGED dup_stat
    /\ UNCHANGED <<exVars, fs, lfVars, delVars, batchVars, mvVars, tokVars, raceVars, panelVars>>

\* the first os.walk is exhausted: line 520 starts the second
CountEnd ==
    /\ dup_pc = "count"
    /\ dup_files = <<>>
    /\ dup_stack = <<>>
    /\ dup_pc' = "hash"
    /\ dup_stack' = <<RootPath>>
    /\ UNCHANGED <<dup_cancel, dup_files, dup_dirpath, file_count, processed_count,
                   hash_groups, dup_result, dup_log>>
    /\ UNCHANGED dup_stat
    /\ UNCHANGED <<exVars, fs, lfVars, delVars, batchVars, mvVars, tokVars, raceVars, panelVars>>

\* lines 520-525: os.walk yields the next directory of the second pass; the
\* token is polled, and the break of line 522 leaves for lines 578-593
HashDir ==
    /\ dup_pc = "hash"
    /\ dup_files = <<>>
    /\ dup_stack # <<>>
    /\ IF DupTokenSet
       THEN /\ dup_pc' = "done"
            /\ dup_result' = DupReturnValue(hash_groups)
            /\ dup_log' = [dup_log EXCEPT !.observed = TRUE]
            /\ UNCHANGED <<dup_stack, dup_files, dup_dirpath>>
       ELSE LET d == Head(dup_stack)
            IN  /\ dup_dirpath' = d
                /\ dup_stack' = WalkDescend(d, Tail(dup_stack))
                /\ dup_files' = Filenames(d)
                /\ dup_log' = [dup_log EXCEPT !.walked = @ \cup {d}]
                /\ UNCHANGED <<dup_pc, dup_result>>
    /\ UNCHANGED <<dup_cancel, file_count, processed_count, hash_groups>>
    /\ UNCHANGED dup_stat
    /\ UNCHANGED <<exVars, fs, lfVars, delVars, batchVars, mvVars, tokVars, raceVars, panelVars>>

\* lines 527-529: the poll at the head of the file loop; the break leaves the
\* file loop, and the directory loop goes on to its own poll.  When the loop
\* goes on, the stat of line 536 is taken here: what the file is when it is
\* opened and read by hash_file may be something else
HashPoll ==
    /\ dup_pc = "hash"
    /\ dup_files # <<>>
    /\ IF DupTokenSet
       THEN /\ dup_files' = <<>>
            /\ dup_log' = [dup_log EXCEPT !.observed = TRUE]
            /\ UNCHANGED <<dup_pc, dup_stat>>
       ELSE /\ dup_pc' = "file"
            /\ dup_stat' = Stat(PathJoin(dup_dirpath, Head(dup_files)))
            /\ dup_log' = [dup_log EXCEPT !.setAtPoll = DupTokenSet]
            /\ UNCHANGED dup_files
    /\ UNCHANGED <<dup_cancel, dup_stack, dup_dirpath, file_count, processed_count,
                   hash_groups, dup_result>>
    /\ UNCHANGED <<exVars, fs, lfVars, delVars, batchVars, mvVars, tokVars, raceVars, panelVars>>

\* lines 535-539 with the size test dropped
DupQualifiesAnySize(file_path) ==
    /\ ~IsExcluded(file_path)
    /\ dup_stat.ok

\* lines 531-539: the file is neither excluded nor unreadable by stat nor below
\* 1 MiB, by the stat taken for it
DupQualifies(file_path) ==
    /\ ~IsExcluded(file_path)
    /\ dup_stat.ok
    /\ ~(dup_stat.st_size < MinDupSize)

\* lines 531-573: one file of the second pass
HashFile ==
    /\ dup_pc = "file"
    /\ LET file_path == PathJoin(dup_dirpath, Head(dup_files))
           examined == ~IsExcluded(file_path)
           hashes == DupQualifies(file_path)
           file_hash == IF hashes THEN hash_file(file_path) ELSE None
           added == hashes /\ file_hash # None
           file_info == FileInfo(file_path, dup_stat.st_size)
           calls == added /\ ProgressDue(processed_count + 1, DupProgressEvery)
       IN  /\ hash_groups' = IF added THEN AddToGroups(hash_groups, file_hash, file_info)
                             ELSE hash_groups
           /\ processed_count' = IF added THEN processed_count + 1 ELSE processed_count
           /\ dup_log' = [dup_log EXCEPT
                  !.hashed = IF hashes THEN @ \cup {file_path} ELSE @,
                  !.examinedAfterSet = IF examined /\ DupTokenSet THEN Bump(@) ELSE @,
                  !.callbacks = IF calls THEN Append(@, <<processed_count + 1, file_count>>) ELSE @,
                  !.cbWhileSet = IF calls /\ DupTokenSet THEN Bump(@) ELSE @,
                  !.cbAfterRequest = IF calls /\ dup_log.requested THEN Bump(@) ELSE @,
                  !.cbAfterObserved = IF calls /\ dup_log.observed THEN Bump(@) ELSE @,
                  !.cbLate = IF calls /\ dup_log.setAtPoll THEN Bump(@) ELSE @]
    /\ dup_files' = Tail(dup_files)
    /\ dup_pc' = "hash"
    /\ dup_stat' = NoStat
    /\ UNCHANGED <<dup_cancel, dup_stack, dup_dirpath, file_count, dup_result>>
    /\ UNCHANGED <<exVars, fs, lfVars, delVars, batchVars, mvVars, tokVars, raceVars, panelVars>>

\* the second os.walk is exhausted: lines 578-593
HashEnd ==
    /\ dup_pc = "hash"
    /\ dup_files = <<>>
    /\ dup_stack = <<>>
    /\ dup_pc' = "done"
    /\ dup_result' = DupReturnValue(hash_groups)
    /\ UNCHANGED <<dup_cancel, dup_stack, dup_files, dup_dirpath, file_count,
                   processed_count, hash_groups, dup_log>>
    /\ UNCHANGED dup_stat
    /\ UNCHANGED <<exVars, fs, lfVars, delVars, batchVars, mvVars, tokVars, raceVars, panelVars>>

\* another thread calls cancel_event.set() while the call runs
DupCancel ==
    /\ dup_pc \in {"called", "count", "hash", "file"}
    /\ ~DupTokenSet
    /\ IF dup_cancel_given
       THEN dup_cancel' = TRUE /\ UNCHANGED self_cancel_event
       ELSE self_cancel_event' = TRUE /\ UNCHANGED dup_cancel
    /\ UNCHANGED <<dup_cancel_given, lf_cancel_given>>
    /\ dup_log' = [dup_log EXCEPT !.requested = TRUE]
    /\ UNCHANGED <<dup_pc, dup_stack, dup_files, dup_dirpath, file_count,
                   processed_count, hash_groups, dup_result>>
    /\ UNCHANGED dup_stat
    /\ UNCHANGED <<exVars, fs, lfVars, delVars, batchVars, mvVars, raceVars, panelVars>>

DupNext ==
    \/ DupBegin
    \/ CountDir
    \/ CountFile
    \/ CountEnd
    \/ HashDir
    \/ HashPoll
    \/ HashFile
    \/ HashEnd
    \/ DupCancel

----------------------------------------------------------------------------
(* DiscoveryScanner.scan_large_files                                        *)
(*                                                                          *)
(* lf_pc: "off", "called", "walk" (at the head of the directory loop or of  *)
(* the file loop), "file" (past the poll of line 628), "done".  The record  *)
(* keeps path and size_bytes of LargeFileInfo; dates, type and age play no  *)
(* part in what is returned or in which order.                              *)
(***************************************************************************)

LargeProgressEvery == 25

LargeFileInfo(path, size) == [path |-> path, size_bytes |-> size]

\* lines 672-675: large_files.sort(key=lambda f: f.size_bytes, reverse=True)
LargeReturnValue(files) ==
    SortDesc([i \in 1..Len(files) |-> <<files[i].size_bytes, files[i]>>])

LfLogInit ==
    [walked |-> {}, examined |-> {}, callbacks |-> <<>>,
     requested |-> FALSE, observed |-> FALSE, setAtPoll |-> FALSE,
     examinedAfterSet |-> 0, cbWhileSet |-> 0, cbAfterRequest |-> 0, cbAfterObserved |-> 0,
     cbLate |-> 0]

LfOff ==
    /\ lf_pc = "off"
    /\ lf_cancel = FALSE
    /\ lf_stack = <<>>
    /\ lf_files = <<>>
    /\ lf_dirpath = RootPath
    /\ threshold_mb = 100
    /\ large_files = <<>>
    /\ lf_processed = 0
    /\ lf_result = <<>>
    /\ lf_log = LfLogInit

\* scan_large_files(root_path, threshold_mb, progress_callback, cancel_event) has been invoked
LfCalled ==
    /\ lf_pc = "called"
    /\ lf_cancel = FALSE
    /\ lf_stack = <<>>
    /\ lf_files = <<>>
    /\ lf_dirpath = RootPath
    /\ threshold_mb \in ThresholdChoices
    /\ large_files = <<>>
    /\ lf_processed = 0
    /\ lf_result = <<>>
    /\ lf_log = LfLogInit

\* line 615
threshold_bytes == threshold_mb * 1024 * 1024

\* lines 610-617: cancel_event.clear() and the locals
LfBegin ==
    /\ lf_pc = "called"
    /\ lf_pc' = "walk"
    /\ IF lf_cancel_given
       THEN lf_cancel' = FALSE /\ UNCHANGED self_cancel_event
       ELSE self_cancel_event' = FALSE /\ UNCHANGED lf_cancel
    /\ UNCHANGED <<dup_cancel_given, lf_cancel_given>>
    /\ large_files' = <<>>
    /\ lf_processed' = 0
    /\ lf_stack' = <<RootPath>>
    /\ lf_files' = <<>>
    /\ UNCHANGED <<lf_dirpath, threshold_mb, lf_result, lf_log>>
    /\ UNCHANGED <<exVars, fs, dupVars, delVars, batchVars, mvVars, raceVars, panelVars>>

\* lines 620-625: os.walk yields the next directory; the token is polled, and
\* the break of line 622 leaves for lines 672-675
LfDir ==
    /\ lf_pc = "walk"
    /\ lf_files = <<>>
    /\ lf_stack # <<>>
    /\ IF LfTokenSet
       THEN /\ lf_pc' = "done"
            /\ lf_result' = LargeReturnValue(large_files)
            /\ lf_log' = [lf_log EXCEPT !.observed = TRUE]
            /\ UNCHANGED <<lf_stack, lf_files, lf_dirpath>>
       ELSE LET d == Head(lf_stack)
            IN  /\ lf_dirpath' = d
                /\ lf_stack' = WalkDescend(d, Tail(lf_stack))
                /\ lf_files' = Filenames(d)
                /\ lf_log' = [lf_log EXCEPT !.walked = @ \cup {d}]
                /\ UNCHANGED <<lf_pc, lf_result>>
    /\ UNCHANGED <<lf_cancel, threshold_mb, large_files, lf_processed>>
    /\ UNCHANGED <<exVars, fs, dupVars, delVars, batchVars, mvVars, tokVars, raceVars, panelVars>>

\* lines 627-629 without the test: the file loop never polls the token
LfPollNoCheck ==
    /\ lf_pc = "walk"
    /\ lf_files # <<>>
    /\ lf_pc' = "file"
    /\ lf_log' = [lf_log EXCEPT !.setAtPoll = LfTokenSet]
    /\ UNCHANGED lf_files
    /\ UNCHANGED <<lf_cancel, lf_stack, lf_dirpath, threshold_mb, large_files,
                   lf_processed, lf_result>>
    /\ UNCHANGED <<exVars, fs, dupVars, delVars, batchVars, mvVars, tokVars, raceVars, panelVars>>

\* lines 627-629: the poll at the head of the file loop
LfPoll ==
    /\ lf_pc = "walk"
    /\ lf_files # <<>>
    /\ IF LfTokenSet
       THEN /\ lf_files' = <<>>
            /\ lf_log' = [lf_log EXCEPT !.observed = TRUE]
            /\ UNCHANGED lf_pc
       ELSE /\ lf_pc' = "file"
            /\ lf_log' = [lf_log EXCEPT !.setAtPoll = LfTokenSet]
            /\ UNCHANGED lf_files
    /\ UNCHANGED <<lf_cancel, lf_stack, lf_dirpath, threshold_mb, large_files,
                   lf_processed, lf_result>>
    /\ UNCHANGED <<exVars, fs, dupVars, delVars, batchVars, mvVars, tokVars, raceVars, panelVars>>

\* lines 635-638 comparing in MiB, rounded up: a file just below the threshold passes
LargeQualifiesRounded(file_path) ==
    /\ ~IsExcluded(file_path)
    /\ StatOk(file_path)
    /\ ~((FileAt(file_path).st_size \div MiB) + 1 < threshold_mb)

\* lines 631-638: the file is neither excluded nor unreadable by stat nor below the threshold
LargeQualifies(file_path) ==
    /\ ~IsExcluded(file_path)
    /\ StatOk(file_path)
    /\ ~(FileAt(file_path).st_size < threshold_bytes)

\* lines 631-667: one file of the walk
LfFile ==
    /\ lf_pc = "file"
    /\ LET file_path == PathJoin(lf_dirpath, Head(lf_files))
           examined == ~IsExcluded(file_path)
           added == LargeQualifies(file_path)
           calls == added /\ ProgressDue(lf_processed + 1, LargeProgressEvery)
       IN  /\ large_files' = IF added
                             THEN Append(large_files,
                                         LargeFileInfo(file_path, FileAt(file_path).st_size))
                             ELSE large_files
           /\ lf_processed' = IF added THEN lf_processed + 1 ELSE lf_processed
           /\ lf_log' = [lf_log EXCEPT
                  !.examined = IF examined THEN @ \cup {file_path} ELSE @,
                  !.examinedAfterSet = IF examined /\ LfTokenSet THEN Bump(@) ELSE @,
                  !.callbacks = IF calls THEN Append(@, <<lf_processed + 1, 0>>) ELSE @,
                  !.cbWhileSet = IF calls /\ LfTokenSet THEN Bump(@) ELSE @,
                  !.cbAfterRequest = IF calls /\ lf_log.requested THEN Bump(@) ELSE @,
                  !.cbAfterObserved = IF calls /\ lf_log.observed THEN Bump(@) ELSE @,
                  !.cbLate = IF calls /\ lf_log.setAtPoll THEN Bump(@) ELSE @]
    /\ lf_files' = Tail(lf_files)
    /\ lf_pc' = "walk"
    /\ UNCHANGED <<lf_cancel, lf_stack, lf_dirpath, threshold_mb, lf_result>>
    /\ UNCHANGED <<exVars, fs, dupVars, delVars, batchVars, mvVars, tokVars, raceVars, panelVars>>

\* os.walk is exhausted: lines 672-675
LfEnd ==
    /\ lf_pc = "walk"
    /\ lf_files = <<>>
    /\ lf_stack = <<>>
    /\ lf_pc' = "done"
    /\ lf_result' = LargeReturnValue(large_files)
    /\ UNCHANGED <<lf_cancel, lf_stack, lf_files, lf_dirpath, threshold_mb,
                   large_files, lf_processed, lf_log>>
    /\ UNCHANGED <<exVars, fs, dupVars, delVars, batchVars, mvVars, tokVars, raceVars, panelVars>>

\* another thread calls cancel_event.set() while the call runs
LfCancel ==
    /\ lf_pc \in {"called", "walk", "file"}
    /\ ~LfTokenSet
    /\ IF lf_cancel_given
       THEN lf_cancel' = TRUE /\ UNCHANGED self_cancel_event
       ELSE self_cancel_event' = TRUE /\ UNCHANGED lf_cancel
    /\ UNCHANGED <<dup_cancel_given, lf_cancel_given>>
    /\ lf_log' = [lf_log EXCEPT !.requested = TRUE]
    /\ UNCHANGED <<lf_pc, lf_stack, lf_files, lf_dirpath, threshold_mb, large_files,
                   lf_processed, lf_result>>
    /\ UNCHANGED <<exVars, fs, dupVars, delVars, batchVars, mvVars, raceVars, panelVars>>

LfNext ==
    \/ LfBegin
    \/ LfDir
    \/ LfPoll
    \/ LfFile
    \/ LfEnd
    \/ LfCancel

----------------------------------------------------------------------------
(* Cleaner.delete_folder                                                    *)
(*                                                                          *)
(* The folders live under C:\Users: .gradle (a.bin, data\x.bin, b.bin),     *)
(* .npm (c.bin), data (z.bin), the regular file y.bin, and Windows, which   *)
(* never exists.                                                            *)
(* del_fs is the set of paths that exist.  The removal primitive (rd /s /q  *)
(* through cmd on win32, shutil.rmtree elsewhere) is outside the            *)
(* repository: it is taken to report success exactly when it removed the    *)
(* whole tree, as delete_folder takes it, and to fail on a file in use.     *)
(* None as an error message is the empty tuple; a message is the tuple of   *)
(* the pieces of its f-string.                                              *)
(***************************************************************************)

NpmDir   == UsersDir \o << N(".npm") >>
ABin     == PathJoin(GradleDir, N("a.bin"))
BBin     == PathJoin(GradleDir, N("b.bin"))
CBin     == PathJoin(NpmDir, N("c.bin"))
YBin     == PathJoin(UsersDir, N("y.bin"))
ZBin     == PathJoin(DataDir, N("z.bin"))

DelDirs  == {GradleDir, GradleDataDir, NpmDir, DataDir}
DelFiles == {ABin, BBin, XBin, CBin, YBin, ZBin}

\* the paths delete_folder is called with
DelTargets == {GradleDir, GradleDataDir, NpmDir, DataDir, YBin, UsersWinDir}

\* st_size of the files
DelSize(p) ==
    CASE p = ABin -> 10
      [] p = BBin -> 20
      [] p = XBin -> 5
      [] p = CBin -> 7
      [] p = YBin -> 3
      [] p = ZBin -> 40

\* the tree under a directory in the order a removal works through it: the
\* content of a directory before the directory
RemovalOrder(p) ==
    CASE p = GradleDir     -> << ABin, XBin, GradleDataDir, BBin, GradleDir >>
      [] p = GradleDataDir -> << XBin, GradleDataDir >>
      [] p = NpmDir        -> << CBin, NpmDir >>
      [] p = DataDir       -> << ZBin, DataDir >>

\* what exists of the tree under p
ExistingTree(p) == SelectSeq(RemovalOrder(p), LAMBDA q : q \in del_fs)

\* lines 156-161 without the except: a file whose stat fails is counted too
RECURSIVE SumSizesCountingAll(_, _)
SumSizesCountingAll(tree, i) ==
    IF i > Len(tree) THEN 0
    ELSE (IF tree[i] \in DelFiles THEN DelSize(tree[i]) ELSE 0)
         + SumSizesCountingAll(tree, i + 1)

\* lines 156-161: the sizes of the files of the tree whose stat succeeds
RECURSIVE SumSizes(_, _)
SumSizes(tree, i) ==
    IF i > Len(tree) THEN 0
    ELSE (IF tree[i] \in DelFiles /\ tree[i] \notin del_unreadable
          THEN DelSize(tree[i]) ELSE 0) + SumSizes(tree, i + 1)

\* Cleaner._calculate_size: the sizes of the files under the folder, a file
\* whose stat fails counting for nothing
_calculate_size(folder_path) == SumSizes(ExistingTree(folder_path), 1)

HintPatterns ==
    << <<".","g","r","a","d","l","e">>,
       <<".","a","n","d","r","o","i","d">>,
       <<".","n","p","m">>,
       <<".","c","a","r","g","o">>,
       <<".","c","u","r","s","o","r">>,
       <<".","v","s","c","o","d","e">> >>

HintTexts ==
    << "Try closing Android Studio and stopping Gradle daemons (run 'gradlew --stop' in your project).",
       "Try closing Android Studio and any running emulators.",
       "Try closing any running Node.js processes or IDEs.",
       "Try closing any running Rust builds or IDEs.",
       "Try closing Cursor editor.",
       "Try closing VS Code." >>

GenericHint == "Try closing applications that might be using these files."

\* _get_lock_hint gone straight to its else branch
GetLockHintGenericOnly(folder_path) == GenericHint

\* Cleaner._get_lock_hint: the text of the first pattern the lower-cased path contains
_get_lock_hint(folder_path) ==
    LET path_str == Lower(PathStr(folder_path))
        hits == { i \in 1..Len(HintPatterns) : StrContains(path_str, HintPatterns[i]) }
    IN  IF hits = {} THEN GenericHint
        ELSE HintTexts[CHOOSE i \in hits : \A j \in hits : i <= j]

\* _get_lock_hint of the paths delete_folder is called with, tabulated
LockHintTable == [p \in DelTargets |-> _get_lock_hint(p)]
LockHint(folder_path) == LockHintTable[folder_path]

NoError == << >>

\* the entries of tree in front of the first file in use
RECURSIVE BeforeFirstLocked(_, _)
BeforeFirstLocked(tree, i) ==
    IF i > Len(tree) \/ tree[i] \in del_locked THEN {}
    ELSE {tree[i]} \cup BeforeFirstLocked(tree, i + 1)

HasLocked(tree) == \E i \in 1..Len(tree) : tree[i] \in del_locked

Prefix(tree, k) == { tree[i] : i \in 1..k }

\* a path is q itself or lies under q
IsUnder(p, q) == Len(p) >= Len(q) /\ SubSeq(p, 1, Len(q)) = q

\* what rd /s /q removes when files are in use: all but those files and the
\* directories that hold them
AllButLocked(tree) ==
    { tree[i] : i \in { j \in 1..Len(tree) :
                          ~\E l \in del_locked : l \in Prefix(tree, Len(tree)) /\ IsUnder(l, tree[j]) } }

\* the ways the removal primitive can end on the tree of folder_path, and the
\* paths it has removed by then (k: how far a removal that stops midway got).
\* subprocess.run is given timeout=300 and raises TimeoutExpired when the
\* command runs longer; shutil.rmtree is given no bound: "ok_late" is an rmtree
\* that ran longer than that and came to its end.
WinOutcomes == {"rc0", "denied", "cannot_find", "failed", "timeout", "raise"}
PosixOutcomes == {"ok", "ok_late", "PermissionError", "OSError", "Exception"}

\* the removal ran for longer than the 300 seconds of line 98
Exceeded(o) == o \in {"timeout", "ok_late"}

OutcomePossible(tree, o, k) ==
    CASE o \in {"rc0", "ok", "ok_late"} -> ~HasLocked(tree) /\ k = 0
      [] o \in {"denied", "PermissionError"} -> HasLocked(tree) /\ k = 0
      [] o \in {"timeout", "OSError"} -> k < Len(tree) /\ Prefix(tree, k) \cap del_locked = {}
      [] o = "cannot_find"            -> k \in {0, Len(tree)} /\ Prefix(tree, k) \cap del_locked = {}
      [] OTHER                        -> k = 0

Removed(tree, o, k) ==
    CASE o \in {"rc0", "ok", "ok_late"} -> Prefix(tree, Len(tree))
      [] o = "denied"                 -> AllButLocked(tree)
      [] o = "PermissionError"        -> BeforeFirstLocked(tree, 1)
      [] o \in {"timeout", "OSError", "cannot_find"} -> Prefix(tree, k)
      [] OTHER                        -> {}

\* Cleaner._delete_windows_long_path: <<success, error_message>> of lines 94-126,
\* remaining the paths that exist once the command has ended
_delete_windows_long_path(folder_path, o, remaining) ==
    CASE o = "rc0"     -> <<TRUE, NoError>>
      [] o = "denied"  -> <<FALSE, <<"Some files are locked. ", LockHint(folder_path)>> >>
      [] o = "cannot_find" ->
             IF folder_path \notin remaining THEN <<TRUE, NoError>>
             ELSE <<FALSE, <<"Deletion failed. ", LockHint(folder_path)>> >>
      [] o = "failed"  -> <<FALSE, <<"Deletion failed. ", LockHint(folder_path)>> >>
      [] o = "timeout" -> <<FALSE, <<"Deletion timed out. The folder may be very large or files may be locked.">> >>
      [] o = "raise"   -> <<FALSE, <<"Error: ", "str(e)">> >>

\* lines 65-82: <<success, error_message>> of the rmtree branch
RmtreeBranch(folder_path, o) ==
    CASE o \in {"ok", "ok_late"} -> <<TRUE, NoError>>
      [] o = "PermissionError" -> <<FALSE, <<"Some files are locked. ", LockHint(folder_path)>> >>
      [] o = "OSError"         -> <<FALSE, <<"Cannot delete - files may be in use. ", LockHint(folder_path)>> >>
      [] o = "Exception"       -> <<FALSE, <<"Unexpected error: ", "type(e).__name__">> >>

Result(success, error_message, bytes_freed, remaining) ==
    [success |-> success, error_message |-> error_message, bytes_freed |-> bytes_freed,
     fs |-> remaining]

\* delete_folder without the test of lines 43-45: a missing path falls through
\* to the test for a directory
DeleteFolderNoExistsCheck(folder_path, o, k) ==
    IF folder_path \notin del_fs \/ folder_path \notin DelDirs
    THEN Result(FALSE, <<"Path is not a directory">>, 0, del_fs)
    ELSE LET bytes_freed == _calculate_size(folder_path)
             remaining == del_fs \ Removed(ExistingTree(folder_path), o, k)
             ended == IF del_platform = "win32"
                      THEN _delete_windows_long_path(folder_path, o, remaining)
                      ELSE RmtreeBranch(folder_path, o)
         IN  IF ended[1]
             THEN Result(TRUE, NoError, bytes_freed, remaining)
             ELSE Result(FALSE, ended[2], 0, remaining)

\* delete_folder without the test of lines 47-49: rmtree, or rd, is run on the
\* file, fails on it and leaves it where it is
DeleteFolderNoDirCheck(folder_path, o, k) ==
    IF folder_path \notin del_fs
    THEN Result(TRUE, NoError, 0, del_fs)
    ELSE IF folder_path \notin DelDirs
    THEN Result(FALSE, IF del_platform = "win32"
                       THEN <<"Deletion failed. ", LockHint(folder_path)>>
                       ELSE <<"Cannot delete - files may be in use. ", LockHint(folder_path)>>,
                0, del_fs)
    ELSE LET bytes_freed == _calculate_size(folder_path)
             remaining == del_fs \ Removed(ExistingTree(folder_path), o, k)
             ended == IF del_platform = "win32"
                      THEN _delete_windows_long_path(folder_path, o, remaining)
                      ELSE RmtreeBranch(folder_path, o)
         IN  IF ended[1]
             THEN Result(TRUE, NoError, bytes_freed, remaining)
             ELSE Result(FALSE, ended[2], 0, remaining)

\* Cleaner.delete_folder: what it returns, and the paths that exist afterwards
delete_folder(folder_path, o, k) ==
    IF folder_path \notin del_fs
    THEN Result(TRUE, NoError, 0, del_fs)
    ELSE IF folder_path \notin DelDirs
    THEN Result(FALSE, <<"Path is not a directory">>, 0, del_fs)
    ELSE LET bytes_freed == _calculate_size(folder_path)
             remaining == del_fs \ Removed(ExistingTree(folder_path), o, k)
             ended == IF del_platform = "win32"
                      THEN _delete_windows_long_path(folder_path, o, remaining)
                      ELSE RmtreeBranch(folder_path, o)
         IN  IF ended[1]
             THEN Result(TRUE, NoError, bytes_freed, remaining)
             ELSE Result(FALSE, ended[2], 0, remaining)

\* one call of delete_folder, the removal primitive ending as o
DeleteFolder(folder_path, o, k) ==
    /\ del_platform # "off"
    /\ Len(del_hist) < MaxCalls
    /\ IF folder_path \in del_fs /\ folder_path \in DelDirs
       THEN /\ o \in (IF del_platform = "win32" THEN WinOutcomes ELSE PosixOutcomes)
            /\ OutcomePossible(ExistingTree(folder_path), o, k)
       ELSE o = "none" /\ k = 0
    /\ LET r == delete_folder(folder_path, o, k)
       IN  /\ del_fs' = r.fs
           /\ del_hist' = Append(del_hist,
                  [path |-> folder_path, success |-> r.success,
                   error_message |-> r.error_message, bytes_freed |-> r.bytes_freed,
                   before |-> del_fs, outcome |-> o, exceeded |-> Exceeded(o)])
    /\ UNCHANGED <<del_platform, del_locked, del_unreadable>>
    /\ UNCHANGED <<exVars, fs, dupVars, lfVars, batchVars, mvVars, tokVars, raceVars, panelVars>>

DelOff ==
    /\ del_platform = "off"
    /\ del_fs = {}
    /\ del_locked = {}
    /\ del_unreadable = {}
    /\ del_hist = << >>

DeleteNext ==
    \E folder_path \in DelTargets :
        \E o \in WinOutcomes \cup PosixOutcomes \cup {"none"} : \E k \in 0..5 :
            DeleteFolder(folder_path, o, k)

----------------------------------------------------------------------------
(* Cleaner.delete_folders_batch *)

\* the folders a batch is made of: .gradle\data lies under .gradle
BatchTargets == {GradleDir, GradleDataDir, DataDir, YBin, UsersWinDir}

\* scanner.FolderInfo, as far as the batch reads it: name and full_path
FolderInfo(full_path) == [name |-> PathName(full_path), full_path |-> full_path]

BatchLists ==
    UNION { [1..n -> { FolderInfo(p) : p \in BatchTargets }] : n \in 0..MaxBatch }

\* lines 179-184
NewResults ==
    [success_count |-> 0, failed_count |-> 0, total_bytes_freed |-> 0, errors |-> << >>]

BatchOff ==
    /\ batch_pc = "off"
    /\ folders = << >>
    /\ progress_callback = FALSE
    /\ idx = 0
    /\ results = NewResults
    /\ batch_log = << >>

\* lines 194-202 with the failure counted and its entry left out of the list
TallyDroppingError(res, folder, r) ==
    IF r.success
    THEN [res EXCEPT !.success_count = @ + 1,
                     !.total_bytes_freed = @ + r.bytes_freed]
    ELSE [res EXCEPT !.failed_count = @ + 1]

\* line 196 with = in place of +=
TallyKeepingLast(res, folder, r) ==
    IF r.success
    THEN [res EXCEPT !.success_count = @ + 1,
                     !.total_bytes_freed = r.bytes_freed]
    ELSE [res EXCEPT !.failed_count = @ + 1,
                     !.errors = Append(@, [folder |-> folder.name,
                                           error |-> r.error_message])]

\* lines 194-202: the result of one delete_folder entered into results
Tally(res, folder, r) ==
    IF r.success
    THEN [res EXCEPT !.success_count = @ + 1,
                     !.total_bytes_freed = @ + r.bytes_freed]
    ELSE [res EXCEPT !.failed_count = @ + 1,
                     !.errors = Append(@, [folder |-> folder.name,
                                           error |-> r.error_message])]

\* progress_callback(folder, idx, total), as the batch log keeps it
CallbackEvent(folder, i, total) ==
    [ev |-> "callback", folder |-> folder, idx |-> i, total |-> total]

\* lines 188-190 with the callback made for the first item only
BatchCallbackFirstOnly ==
    /\ batch_pc = "loop"
    /\ idx <= Len(folders)
    /\ batch_log' = IF progress_callback /\ idx = 1
                    THEN Append(batch_log, CallbackEvent(folders[idx], idx, Len(folders)))
                    ELSE batch_log
    /\ batch_pc' = "delete"
    /\ UNCHANGED <<folders, progress_callback, idx, results>>
    /\ UNCHANGED <<exVars, fs, dupVars, lfVars, delVars, mvVars, tokVars, raceVars, panelVars>>

\* lines 188-190: the head of the loop for item idx; the callback, if one is given
BatchCallback ==
    /\ batch_pc = "loop"
    /\ idx <= Len(folders)
    /\ batch_log' = IF progress_callback
                    THEN Append(batch_log, CallbackEvent(folders[idx], idx, Len(folders)))
                    ELSE batch_log
    /\ batch_pc' = "delete"
    /\ UNCHANGED <<folders, progress_callback, idx, results>>
    /\ UNCHANGED <<exVars, fs, dupVars, lfVars, delVars, mvVars, tokVars, raceVars, panelVars>>

\* lines 192-202: delete_folder on item idx, the removal primitive ending as o,
\* and the bookkeeping
BatchDelete(o, k) ==
    /\ batch_pc = "delete"
    /\ LET folder == folders[idx]
           folder_path == folder.full_path
       IN  /\ IF folder_path \in del_fs /\ folder_path \in DelDirs
              THEN /\ o \in (IF del_platform = "win32" THEN WinOutcomes ELSE PosixOutcomes)
                   /\ OutcomePossible(ExistingTree(folder_path), o, k)
              ELSE o = "none" /\ k = 0
           /\ LET r == delete_folder(folder_path, o, k)
              IN  /\ del_fs' = r.fs
                  /\ del_hist' = Append(del_hist,
                         [path |-> folder_path, success |-> r.success,
                          error_message |-> r.error_message, bytes_freed |-> r.bytes_freed,
                          before |-> del_fs, outcome |-> o, exceeded |-> Exceeded(o)])
                  /\ results' = Tally(results, folder, r)
    /\ batch_log' = batch_log \o << [ev |-> "start", idx |-> idx], [ev |-> "end", idx |-> idx] >>
    /\ idx' = idx + 1
    /\ batch_pc' = "loop"
    /\ UNCHANGED <<folders, progress_callback>>
    /\ UNCHANGED <<del_platform, del_locked, del_unreadable>>
    /\ UNCHANGED <<exVars, fs, dupVars, lfVars, mvVars, tokVars, raceVars, panelVars>>

\* line 204: the loop is through, results is returned
BatchReturn ==
    /\ batch_pc = "loop"
    /\ idx > Len(folders)
    /\ batch_pc' = "done"
    /\ UNCHANGED <<folders, progress_callback, idx, results, batch_log>>
    /\ UNCHANGED <<exVars, fs, dupVars, lfVars, delVars, mvVars, tokVars, raceVars, panelVars>>

BatchNext ==
    \/ BatchCallback
    \/ \E o \in WinOutcomes \cup PosixOutcomes \cup {"none"} : \E k \in 0..5 : BatchDelete(o, k)
    \/ BatchReturn

----------------------------------------------------------------------------
(* Cleaner.move_file                                                        *)
(*                                                                          *)
(* The sources are C:\Users\a.bin and C:\Users\b.bin, the destinations      *)
(* C:\Users\data and C:\Users\Windows.  mv_fs gives for each path what it   *)
(* is: absent, a directory, or a file with its content.  shutil.move is     *)
(* outside the repository: for a file it renames, and when the rename fails *)
(* it copies the file to the destination and then unlinks the source.       *)
(***************************************************************************)

MvSourceA      == PathJoin(UsersDir, N("a.bin"))
MvSourceB      == PathJoin(UsersDir, N("b.bin"))
MvSources      == { MvSourceA, MvSourceB }
MvDestinations == { DataDir, UsersWinDir }

\* destination / source.name
DestFile(source, destination) == PathJoin(destination, source[Len(source)])

MvPaths ==
    MvSources \cup MvDestinations
    \cup { DestFile(src, d) : src \in MvSources, d \in MvDestinations }

Absent       == [kind |-> "absent", content |-> ""]
Directory    == [kind |-> "dir", content |-> ""]
FileOf(data) == [kind |-> "file", content |-> data]

\* Path.exists, Path.is_file, Path.is_dir
Exists(f, p) == f[p].kind # "absent"
IsFile(f, p) == f[p].kind = "file"
IsDir(f, p)  == f[p].kind = "dir"

\* the ways shutil.move can end on a file, the directory of the destination
\* being there: the rename done; the rename refused and the copy and the unlink
\* done; the copy failing before or after it has written part of the
\* destination; the unlink of the source failing after the copy; an exception
\* that is no OSError, raised before anything is touched
MoveOutcomes ==
    {"rename", "copy_unlink", "copy_fails", "copy_fails_partial", "unlink_fails", "unexpected"}

\* the exceptions lines 280-287 tell apart
MoveErrors == {"PermissionError", "OSError"}

MoveFails(o) == o \in {"copy_fails", "copy_fails_partial", "unlink_fails", "unexpected"}

\* what shutil.move(str(source), str(dest_file)) leaves behind
ShutilMove(f, source, dest_file, o) ==
    CASE o \in {"rename", "copy_unlink"} ->
             [f EXCEPT ![dest_file] = f[source], ![source] = Absent]
      [] o = "copy_fails_partial" -> [f EXCEPT ![dest_file] = FileOf("partial")]
      [] o = "unlink_fails"       -> [f EXCEPT ![dest_file] = f[source]]
      [] OTHER                    -> f

\* lines 280-289: the message of a failed shutil.move
MoveErrorMessage(o, e) ==
    IF o = "unexpected" THEN <<"Unexpected error: ", "type(e).__name__">>
    ELSE IF e = "PermissionError" THEN <<"Permission denied: ", "str(e)">>
    ELSE <<"Cannot move file: ", "str(e)">>

MvResult(success, error_message, f) ==
    [success |-> success, error_message |-> error_message, fs |-> f]

\* move_file without the test of lines 269-272: the move goes ahead onto the
\* file that is there
MoveFileOverwriting(source, destination, o, e) ==
    IF ~Exists(mv_fs, source)
    THEN MvResult(FALSE, <<"Source file doesn't exist">>, mv_fs)
    ELSE IF ~IsFile(mv_fs, source)
    THEN MvResult(FALSE, <<"Source path is not a file">>, mv_fs)
    ELSE IF ~Exists(mv_fs, destination) /\ o = "mkdir_fails"
    THEN MvResult(FALSE, <<"Failed to create destination directory: ", "str(e)">>, mv_fs)
    ELSE LET made == IF Exists(mv_fs, destination) THEN mv_fs
                     ELSE [mv_fs EXCEPT ![destination] = Directory]
             dest_file == DestFile(source, destination)
         IN  IF ~IsDir(made, destination)
             THEN MvResult(FALSE, <<"Destination is not a directory">>, made)
             ELSE IF MoveFails(o)
             THEN MvResult(FALSE, MoveErrorMessage(o, e), ShutilMove(made, source, dest_file, o))
             ELSE MvResult(TRUE, NoError, ShutilMove(made, source, dest_file, "rename"))

\* move_file with the source unlinked before the copy is known to have ended
MoveFileUnlinkingFirst(source, destination, o, e) ==
    IF ~Exists(mv_fs, source)
    THEN MvResult(FALSE, <<"Source file doesn't exist">>, mv_fs)
    ELSE IF ~IsFile(mv_fs, source)
    THEN MvResult(FALSE, <<"Source path is not a file">>, mv_fs)
    ELSE IF ~Exists(mv_fs, destination) /\ o = "mkdir_fails"
    THEN MvResult(FALSE, <<"Failed to create destination directory: ", "str(e)">>, mv_fs)
    ELSE LET made == IF Exists(mv_fs, destination) THEN mv_fs
                     ELSE [mv_fs EXCEPT ![destination] = Directory]
             dest_file == DestFile(source, destination)
         IN  IF ~IsDir(made, destination)
             THEN MvResult(FALSE, <<"Destination is not a directory">>, made)
             ELSE IF Exists(made, dest_file)
             THEN MvResult(FALSE, <<"Destination file already exists">>, made)
             ELSE IF MoveFails(o)
             THEN MvResult(FALSE, MoveErrorMessage(o, e),
                           [ShutilMove(made, source, dest_file, o) EXCEPT ![source] = Absent])
             ELSE MvResult(TRUE, NoError, ShutilMove(made, source, dest_file, o))

\* Cleaner.move_file: what it returns, and what the paths are afterwards
move_file(source, destination, o, e) ==
    IF ~Exists(mv_fs, source)
    THEN MvResult(FALSE, <<"Source file doesn't exist">>, mv_fs)
    ELSE IF ~IsFile(mv_fs, source)
    THEN MvResult(FALSE, <<"Source path is not a file">>, mv_fs)
    ELSE IF ~Exists(mv_fs, destination) /\ o = "mkdir_fails"
    THEN MvResult(FALSE, <<"Failed to create destination directory: ", "str(e)">>, mv_fs)
    ELSE LET made == IF Exists(mv_fs, destination) THEN mv_fs
                     ELSE [mv_fs EXCEPT ![destination] = Directory]
             dest_file == DestFile(source, destination)
         IN  IF ~IsDir(made, destination)
             THEN MvResult(FALSE, <<"Destination is not a directory">>, made)
             ELSE IF Exists(made, dest_file)
             THEN MvResult(FALSE, <<"Destination file already exists">>, made)
             ELSE IF MoveFails(o)
             THEN MvResult(FALSE, MoveErrorMessage(o, e), ShutilMove(made, source, dest_file, o))
             ELSE MvResult(TRUE, NoError, ShutilMove(made, source, dest_file, o))

\* the inputs of the environment that the call gets to: the mkdir of line 259
\* can fail only when the destination is missing, shutil.move is reached only
\* past the tests of lines 246-272
MoveReaches(source, destination, o, e) ==
    LET valid  == IsFile(mv_fs, source)
        mkdir  == valid /\ ~Exists(mv_fs, destination)
        moving == /\ valid
                  /\ (IsDir(mv_fs, destination) \/ ~Exists(mv_fs, destination))
                  /\ ~Exists(mv_fs, DestFile(source, destination))
    IN  \/ o = "mkdir_fails" /\ mkdir /\ e = "OSError"
        \/ o \in MoveOutcomes /\ moving
              /\ (IF o \in {"copy_fails", "copy_fails_partial", "unlink_fails"}
                  THEN e \in MoveErrors ELSE e = "none")
        \/ o = "none" /\ e = "none" /\ ~moving

\* one call of move_file
MoveFile(source, destination, o, e) ==
    /\ mv_on
    /\ Len(mv_hist) < MaxMoves
    /\ MoveReaches(source, destination, o, e)
    /\ LET r == move_file(source, destination, o, e)
       IN  /\ mv_fs' = r.fs
           /\ mv_hist' = Append(mv_hist,
                  [source |-> source, destination |-> destination,
                   success |-> r.success, error_message |-> r.error_message,
                   before |-> mv_fs, outcome |-> o])
    /\ UNCHANGED mv_on
    /\ UNCHANGED <<exVars, fs, dupVars, lfVars, delVars, batchVars, tokVars, raceVars, panelVars>>

MvOff ==
    /\ mv_on = FALSE
    /\ mv_fs = [p \in MvPaths |-> Absent]
    /\ mv_hist = << >>

MoveNext ==
    \E source \in MvSources, destination \in MvDestinations :
        \E o \in MoveOutcomes \cup {"mkdir_fails", "none"}, e \in MoveErrors \cup {"none"} :
            MoveFile(source, destination, o, e)

----------------------------------------------------------------------------
(* Two move_file calls at once                                              *)
(*                                                                          *)
(* DiscoveryPanel._move_file starts a thread per move and disables nothing, *)
(* so two calls can run together.  The sources are C:\Users\a.bin and       *)
(* C:\Users\Windows\a.bin, both moved into C:\Users\data.  Each call is two *)
(* steps: the tests of lines 246-272, then shutil.move.  shutil.move onto a *)
(* file that is there replaces it: os.rename does on POSIX, and where       *)
(* os.rename refuses (Windows) shutil.move falls back to copy2, which       *)
(* overwrites, and os.unlink.                                               *)
(***************************************************************************)

RaceSource(w)   == IF w = 1 THEN PathJoin(UsersDir, N("a.bin"))
                   ELSE PathJoin(UsersWinDir, N("a.bin"))
RaceDestination == DataDir
RaceDestFile    == DestFile(RaceSource(1), RaceDestination)
RacePaths       == {RaceSource(1), RaceSource(2), RaceDestination, RaceDestFile}
Workers         == {1, 2}

RaceOff == mv_race = [on |-> FALSE]

\* lines 246-272, the paths being f: the failure returned, or "go" when
\* shutil.move is reached; mkdir is whether the mkdir of line 257 succeeds
MoveTests(f, source, destination, mkdir) ==
    IF ~Exists(f, source) THEN <<"Source file doesn't exist">>
    ELSE IF ~IsFile(f, source) THEN <<"Source path is not a file">>
    ELSE IF ~Exists(f, destination) /\ ~mkdir
    THEN <<"Failed to create destination directory: ", "str(e)">>
    ELSE IF Exists(f, destination) /\ ~IsDir(f, destination)
    THEN <<"Destination is not a directory">>
    ELSE IF Exists(f, DestFile(source, destination))
    THEN <<"Destination file already exists">>
    ELSE <<"go">>

\* lines 246-272 of the call of worker w
RaceCheck(w, mkdir) ==
    /\ mv_race.on
    /\ mv_race.pc[w] = "called"
    /\ (mkdir = FALSE) => ~Exists(mv_race.fs, RaceDestination)
    /\ LET t == MoveTests(mv_race.fs, RaceSource(w), RaceDestination, mkdir)
           made == IF ~Exists(mv_race.fs, RaceDestination) /\ mkdir
                   THEN [mv_race.fs EXCEPT ![RaceDestination] = Directory]
                   ELSE mv_race.fs
       IN  mv_race' = [mv_race EXCEPT
               !.fs = made,
               !.pc[w] = IF t = <<"go">> THEN "moving" ELSE "returned",
               !.result[w] = IF t = <<"go">> THEN @
                             ELSE [success |-> FALSE, error_message |-> t]]
    /\ UNCHANGED <<exVars, fs, dupVars, lfVars, delVars, batchVars, mvVars, tokVars, panelVars>>

\* lines 274-289 of the call of worker w: shutil.move ending as o
RaceMove(w, o, e) ==
    /\ mv_race.on
    /\ mv_race.pc[w] = "moving"
    /\ IF o \in {"copy_fails", "copy_fails_partial", "unlink_fails"}
       THEN e \in MoveErrors ELSE e = "none"
    /\ LET written == o \in {"rename", "copy_unlink", "copy_fails_partial", "unlink_fails"}
       IN  mv_race' = [mv_race EXCEPT
               !.fs = ShutilMove(mv_race.fs, RaceSource(w), RaceDestFile, o),
               !.pc[w] = "returned",
               !.result[w] = IF MoveFails(o)
                             THEN [success |-> FALSE, error_message |-> MoveErrorMessage(o, e)]
                             ELSE [success |-> TRUE, error_message |-> NoError],
               !.replaced = @ \/ (written /\ IsFile(mv_race.fs, RaceDestFile))]
    /\ UNCHANGED <<exVars, fs, dupVars, lfVars, delVars, batchVars, mvVars, tokVars, panelVars>>

\* another process creates a file of that name in the destination
RaceCreate ==
    /\ mv_race.on
    /\ \E w \in Workers : mv_race.pc[w] # "returned"
    /\ IsDir(mv_race.fs, RaceDestination)
    /\ ~Exists(mv_race.fs, RaceDestFile)
    /\ mv_race' = [mv_race EXCEPT !.fs[RaceDestFile] = FileOf("other")]
    /\ UNCHANGED <<exVars, fs, dupVars, lfVars, delVars, batchVars, mvVars, tokVars, panelVars>>

RaceNext ==
    \/ \E w \in Workers : \E mkdir \in BOOLEAN : RaceCheck(w, mkdir)
    \/ \E w \in Workers : \E o \in MoveOutcomes : \E e \in MoveErrors \cup {"none"} :
           RaceMove(w, o, e)
    \/ RaceCreate


----------------------------------------------------------------------------
(* DiscoveryPanel: the scan buttons, the Cancel button and the scan threads *)
(*                                                                          *)
(* The handlers of the panel run on the Tk main loop, one at a time; each   *)
(* scan runs in a thread of its own, which hands its completion or error    *)
(* handler to the main loop with self.after(0, ...).  A scan is kept as far *)
(* as the panel sees it: its entry (cancel_event.clear(), scanner.py 490    *)
(* and 613), its return after a poll found the token set, its return at the *)
(* end of the walk, or an exception.  requested, early and delivered record *)
(* for the properties whether Cancel was clicked while the thread was at or *)
(* before its scan, whether the scan stopped at a poll, and whether its     *)
(* results reached the completion handler.                                  *)
(***************************************************************************)

Kinds   == {"duplicate", "large_file"}
Buttons == {"scan_duplicates_btn", "scan_large_files_btn", "scan_both_btn"}

ButtonOf(k) == IF k = "duplicate" THEN "scan_duplicates_btn" ELSE "scan_large_files_btn"

\* the panel after __init__ and _build_ui (lines 21-33, 117-119)
PanelOff ==
    /\ btn = [b \in Buttons |-> "normal"]
    /\ progress_frame = FALSE
    /\ cancel_events = [k \in Kinds |-> FALSE]
    /\ threads = [k \in Kinds |-> << >>]
    /\ after_queue = << >>

\* threading.Thread(target=..., daemon=True).start()
NewThread == [pc |-> "start", requested |-> FALSE, early |-> FALSE, delivered |-> FALSE]

Panel ==
    [btn |-> btn, progress_frame |-> progress_frame,
     cancel_events |-> cancel_events, threads |-> threads]

SetPanel(p) ==
    /\ btn' = p.btn
    /\ progress_frame' = p.progress_frame
    /\ cancel_events' = p.cancel_events
    /\ threads' = p.threads

\* lines 251-271
_start_duplicate_scan(p) ==
    [p EXCEPT !.btn["scan_duplicates_btn"] = "disabled",
              !.btn["scan_both_btn"] = "disabled",
              !.progress_frame = TRUE,
              !.cancel_events["duplicate"] = FALSE,
              !.threads["duplicate"] = Append(@, NewThread)]

\* lines 405-446
_start_large_file_scan(p) ==
    [p EXCEPT !.btn["scan_large_files_btn"] = "disabled",
              !.btn["scan_both_btn"] = "disabled",
              !.progress_frame = TRUE,
              !.cancel_events["large_file"] = FALSE,
              !.threads["large_file"] = Append(@, NewThread)]

\* lines 246-249
_start_both_scans(p) == _start_large_file_scan(_start_duplicate_scan(p))

\* the user clicks "Scan for Duplicates"
ClickDuplicates ==
    /\ btn["scan_duplicates_btn"] = "normal"
    /\ Len(threads["duplicate"]) < MaxScans
    /\ SetPanel(_start_duplicate_scan(Panel))
    /\ UNCHANGED after_queue
    /\ UNCHANGED <<exVars, fs, dupVars, lfVars, delVars, batchVars, mvVars, tokVars, raceVars>>

\* the user clicks "Scan for Large Files"
ClickLargeFiles ==
    /\ btn["scan_large_files_btn"] = "normal"
    /\ Len(threads["large_file"]) < MaxScans
    /\ SetPanel(_start_large_file_scan(Panel))
    /\ UNCHANGED after_queue
    /\ UNCHANGED <<exVars, fs, dupVars, lfVars, delVars, batchVars, mvVars, tokVars, raceVars>>

\* the user clicks "Scan Both"
ClickBoth ==
    /\ btn["scan_both_btn"] = "normal"
    /\ \A k \in Kinds : Len(threads[k]) < MaxScans
    /\ SetPanel(_start_both_scans(Panel))
    /\ UNCHANGED after_queue
    /\ UNCHANGED <<exVars, fs, dupVars, lfVars, delVars, batchVars, mvVars, tokVars, raceVars>>

\* lines 598-602: the user clicks Cancel, which is in the progress frame
_cancel_scan ==
    /\ progress_frame
    /\ \E k \in Kinds : ~cancel_events[k]
    /\ cancel_events' = [k \in Kinds |-> TRUE]
    /\ threads' = [k \in Kinds |->
                      [i \in 1..Len(threads[k]) |->
                          IF threads[k][i].pc \in {"start", "scan"}
                          THEN [threads[k][i] EXCEPT !.requested = TRUE]
                          ELSE threads[k][i]]]
    /\ UNCHANGED <<btn, progress_frame, after_queue>>
    /\ UNCHANGED <<exVars, fs, dupVars, lfVars, delVars, batchVars, mvVars, tokVars, raceVars>>

\* scanner.py 487-490 and 610-613: the scan, entered, clears its token
ScanBegin(k, i) ==
    /\ i \in 1..Len(threads[k])
    /\ threads[k][i].pc = "start"
    /\ threads' = [threads EXCEPT ![k][i].pc = "scan"]
    /\ cancel_events' = [cancel_events EXCEPT ![k] = FALSE]
    /\ UNCHANGED <<btn, progress_frame, after_queue>>
    /\ UNCHANGED <<exVars, fs, dupVars, lfVars, delVars, batchVars, mvVars, tokVars, raceVars>>

\* scanner.py 521-522, 528-529, 621-622, 628-629: a poll finds the token set
\* and the scan returns what it has
ScanStops(k, i) ==
    /\ i \in 1..Len(threads[k])
    /\ threads[k][i].pc = "scan"
    /\ cancel_events[k]
    /\ threads' = [threads EXCEPT ![k][i].pc = "returned", ![k][i].early = TRUE]
    /\ UNCHANGED <<btn, progress_frame, cancel_events, after_queue>>
    /\ UNCHANGED <<exVars, fs, dupVars, lfVars, delVars, batchVars, mvVars, tokVars, raceVars>>

\* the walk ends and the scan returns its results; the token may have been
\* set since the last poll
ScanCompletes(k, i) ==
    /\ i \in 1..Len(threads[k])
    /\ threads[k][i].pc = "scan"
    /\ threads' = [threads EXCEPT ![k][i].pc = "returned"]
    /\ UNCHANGED <<btn, progress_frame, cancel_events, after_queue>>
    /\ UNCHANGED <<exVars, fs, dupVars, lfVars, delVars, batchVars, mvVars, tokVars, raceVars>>

\* the scan raises what it does not catch (lines 297 and 471 catch it)
ScanRaises(k, i) ==
    /\ i \in 1..Len(threads[k])
    /\ threads[k][i].pc = "scan"
    /\ threads' = [threads EXCEPT ![k][i].pc = "raised"]
    /\ UNCHANGED <<btn, progress_frame, cancel_events, after_queue>>
    /\ UNCHANGED <<exVars, fs, dupVars, lfVars, delVars, batchVars, mvVars, tokVars, raceVars>>

\* lines 295-299 and 469-473: the handler is handed to the main loop unless
\* the token is set, and the thread ends
ThreadEnd(k, i) ==
    /\ i \in 1..Len(threads[k])
    /\ threads[k][i].pc \in {"returned", "raised"}
    /\ IF cancel_events[k]
       THEN /\ threads' = [threads EXCEPT ![k][i].pc = "ended"]
            /\ UNCHANGED after_queue
       ELSE /\ threads' = [threads EXCEPT ![k][i].pc = "posted"]
            /\ after_queue' = Append(after_queue,
                   [handler |-> IF threads[k][i].pc = "returned"
                                THEN "complete" ELSE "error",
                    kind |-> k, thread |-> i])
    /\ UNCHANGED <<btn, progress_frame, cancel_events>>
    /\ UNCHANGED <<exVars, fs, dupVars, lfVars, delVars, batchVars, mvVars, tokVars, raceVars>>

\* lines 301-337 and 475-511: progress hidden, the three buttons set to normal
OnScanComplete(b) == [x \in Buttons |-> "normal"]

\* lines 770-778: the button of the scan that failed, and Scan Both
OnScanErrorButtons(b, k) == [b EXCEPT ![ButtonOf(k)] = "normal", !["scan_both_btn"] = "normal"]

\* the main loop runs the next callback handed to after(0, ...):
\* _on_duplicate_scan_complete, _on_large_file_scan_complete or _on_scan_error
RunAfter ==
    /\ after_queue # << >>
    /\ LET h == Head(after_queue)
       IN  /\ after_queue' = Tail(after_queue)
           /\ IF h.handler = "complete"
              THEN /\ btn' = OnScanComplete(btn)
                   /\ progress_frame' = FALSE
                   /\ threads' = [threads EXCEPT ![h.kind][h.thread].pc = "handled",
                                                 ![h.kind][h.thread].delivered = TRUE]
              ELSE /\ btn' = OnScanErrorButtons(btn, h.kind)
                   /\ progress_frame' =
                          IF /\ btn["scan_duplicates_btn"] = "normal"
                             /\ btn["scan_large_files_btn"] = "normal"
                          THEN FALSE ELSE progress_frame
                   /\ threads' = [threads EXCEPT ![h.kind][h.thread].pc = "handled"]
    /\ UNCHANGED cancel_events
    /\ UNCHANGED <<exVars, fs, dupVars, lfVars, delVars, batchVars, mvVars, tokVars, raceVars>>

\* what the threads and the main loop do by themselves
PanelRuns ==
    \/ \E k \in Kinds : \E i \in 1..MaxScans : ScanBegin(k, i)
    \/ \E k \in Kinds : \E i \in 1..MaxScans : ScanStops(k, i)
    \/ \E k \in Kinds : \E i \in 1..MaxScans : ScanCompletes(k, i)
    \/ \E k \in Kinds : \E i \in 1..MaxScans : ThreadEnd(k, i)
    \/ RunAfter

PanelNext ==
    \/ ClickDuplicates
    \/ ClickLargeFiles
    \/ ClickBoth
    \/ _cancel_scan
    \/ \E k \in Kinds : \E i \in 1..MaxScans : ScanRaises(k, i)
    \/ PanelRuns


----------------------------------------------------------------------------
(* One call of _should_exclude_path on a path of the caller's choosing *)

ExAnchors == { N("C:\\"), N("D:\\") }

ExParts == { N("Users"), N("Windows"), N("WINDOWS"), N("Program Files"), N(".gradle"),
             N("$Recycle.Bin"), N("System Volume Information"), N("data"),
             N("a.bin"), N(".hid.bin") }

\* the anchor followed by at most MaxDepth parts
ExPaths ==
    UNION { { <<a>> \o t : a \in ExAnchors, t \in [1..n -> ExParts] } : n \in 0..MaxDepth }

ExOff ==
    /\ ex_pc = "off"
    /\ ex_path = RootPath
    /\ ex_result = FALSE

ExCall ==
    /\ ex_pc = "call"
    /\ ex_pc' = "done"
    /\ ex_result' = _should_exclude_path(ex_path)
    /\ UNCHANGED ex_path
    /\ UNCHANGED <<fs, dupVars, lfVars, delVars, batchVars, mvVars, tokVars, raceVars, panelVars>>

NoVolume == [kind |-> "none", varied |-> << >>]

InitExclude ==
    /\ ex_pc = "call"
    /\ ex_path \in ExPaths
    /\ ex_result = FALSE
    /\ fs = NoVolume
    /\ DupOff
    /\ LfOff
    /\ DelOff
    /\ BatchOff
    /\ MvOff
    /\ RaceOff
    /\ PanelOff
    /\ TokensGiven

SpecExclude == InitExclude /\ [][ExCall]_vars

----------------------------------------------------------------------------
(* The scans: each run is one call of scan_duplicates or of scan_large_files *)

InitDup ==
    /\ fs \in DupVolumes
    /\ DupCalled
    /\ LfOff
    /\ ExOff
    /\ DelOff
    /\ BatchOff
    /\ MvOff
    /\ RaceOff
    /\ PanelOff
    /\ TokensGiven

InitLarge ==
    /\ fs \in LargeVolumes
    /\ LfCalled
    /\ DupOff
    /\ ExOff
    /\ DelOff
    /\ BatchOff
    /\ MvOff
    /\ RaceOff
    /\ PanelOff
    /\ TokensGiven

Init == InitDup \/ InitLarge

Next == DupNext \/ LfNext

Spec == Init /\ [][Next]_vars

\* the two scans side by side on one scanner and one small volume, each handed
\* a token of its own or none
SmallVolume ==
    [kind |-> "small",
     varied |-> [p \in VariedFiles |->
                    IF p = PathJoin(RootPath, N("a.bin"))
                    THEN File(1024 * MiB, <<"g", 0>>, "ok")
                    ELSE File(500 * MiB, <<"d", 0>>, "ok")]]

InitBoth ==
    /\ fs = SmallVolume
    /\ DupCalled
    /\ LfCalled
    /\ threshold_mb = 500
    /\ self_cancel_event = FALSE
    /\ dup_cancel_given \in BOOLEAN
    /\ lf_cancel_given \in BOOLEAN
    /\ ExOff
    /\ DelOff
    /\ BatchOff
    /\ MvOff
    /\ RaceOff
    /\ PanelOff

SpecBoth == InitBoth /\ [][Next]_vars

\* A volume in use while scan_duplicates runs.  Other processes change it at
\* any moment, each of these once: a.bin (3 MiB) is rewritten with the bytes of
\* b.bin (2 MiB), b.bin is deleted, c.bin (below 1 MiB) grows to the same
\* 2 MiB, and the second half of the files of C:\Users\data is created.
LiveVolume ==
    [kind |-> "live",
     varied |-> [p \in VariedFiles |->
                    CASE p = PathJoin(RootPath, N("a.bin")) -> File(3 * MiB, <<"e", 0>>, "ok")
                      [] p = PathJoin(UsersDir, N("b.bin")) -> File(2 * MiB, <<"d", 0>>, "ok")
                      [] OTHER -> File(MiB - 1, <<"s", 0>>, "ok")],
     changed |-> {}]

\* what a varied file is once it has been changed
ChangedFile(p) ==
    IF p = PathJoin(UsersDir, N("b.bin"))
    THEN File(2 * MiB, <<"d", 0>>, "nostat")
    ELSE File(2 * MiB, <<"d", 0>>, "ok")

\* another process writes, deletes or creates files while the scan runs
FsChange ==
    /\ fs.kind = "live"
    /\ dup_pc \in {"called", "count", "hash", "file"}
    /\ \E x \in (VariedFiles \cup {DataDir}) \ fs.changed :
           fs' = IF x = DataDir
                 THEN [fs EXCEPT !.changed = @ \cup {x}]
                 ELSE [fs EXCEPT !.changed = @ \cup {x}, !.varied[x] = ChangedFile(x)]
    /\ UNCHANGED <<exVars, dupVars, lfVars, delVars, batchVars, mvVars, tokVars, raceVars, panelVars>>

InitChange ==
    /\ fs = LiveVolume
    /\ DupCalled
    /\ LfOff
    /\ ExOff
    /\ DelOff
    /\ BatchOff
    /\ MvOff
    /\ RaceOff
    /\ PanelOff
    /\ TokensGiven

ChangeNext == DupNext \/ FsChange

SpecChange == InitChange /\ [][ChangeNext]_vars

----------------------------------------------------------------------------
(* The deletions: each run is a few calls of delete_folder, one after another *)

\* a run starts with all the folders in place, some files in use or unreadable
InitDelete ==
    /\ del_platform \in {"win32", "linux"}
    /\ del_fs = DelDirs \cup DelFiles
    /\ del_locked \in { l \cup {ZBin} : l \in SUBSET {BBin, XBin} }
    /\ del_unreadable \in SUBSET {ABin}
    /\ del_hist = << >>
    /\ fs = NoVolume
    /\ ExOff
    /\ DupOff
    /\ LfOff
    /\ BatchOff
    /\ MvOff
    /\ RaceOff
    /\ PanelOff
    /\ TokensGiven

SpecDelete == InitDelete /\ [][DeleteNext]_vars

\* a batch starts at the head of its loop (lines 179-188), the folders in place
InitBatch ==
    /\ del_platform \in {"win32", "linux"}
    /\ del_fs = DelDirs \cup DelFiles
    /\ del_locked \in { l \cup {ZBin} : l \in SUBSET {BBin, XBin} }
    /\ del_unreadable \in SUBSET {ABin}
    /\ del_hist = << >>
    /\ batch_pc = "loop"
    /\ folders \in BatchLists
    /\ progress_callback \in BOOLEAN
    /\ idx = 1
    /\ results = NewResults
    /\ batch_log = << >>
    /\ fs = NoVolume
    /\ ExOff
    /\ DupOff
    /\ LfOff
    /\ MvOff
    /\ RaceOff
    /\ PanelOff
    /\ TokensGiven

SpecBatch == InitBatch /\ [][BatchNext]_vars

\* the paths a run of move_file calls starts from
MvVolumes ==
    { f \in [MvPaths -> {Absent, Directory, FileOf("a"), FileOf("b"), FileOf("old")}] :
        /\ \A src \in MvSources :
               f[src] \in {Absent, Directory, FileOf(IF src = MvSourceA THEN "a" ELSE "b")}
        /\ \A d \in MvDestinations :
               /\ f[d] \in {Absent, Directory, FileOf("old")}
               /\ \A src \in MvSources :
                      /\ f[DestFile(src, d)] \in {Absent, FileOf("old")}
                      /\ f[d] # Directory => f[DestFile(src, d)] = Absent }

InitMove ==
    /\ mv_on = TRUE
    /\ mv_fs \in MvVolumes
    /\ mv_hist = << >>
    /\ fs = NoVolume
    /\ ExOff
    /\ DupOff
    /\ LfOff
    /\ DelOff
    /\ BatchOff
    /\ RaceOff
    /\ PanelOff
    /\ TokensGiven

SpecMove == InitMove /\ [][MoveNext]_vars

\* two calls of move_file at once, with another program writing the folder
InitRace ==
    /\ \E d \in {Absent, Directory} : \E old \in {Absent, FileOf("old")} :
           /\ (d = Absent => old = Absent)
           /\ mv_race = [on |-> TRUE,
                         fs |-> [p \in RacePaths |->
                                   CASE p = RaceSource(1) -> FileOf("a")
                                     [] p = RaceSource(2) -> FileOf("b")
                                     [] p = RaceDestination -> d
                                     [] OTHER -> old],
                         pc |-> [w \in Workers |-> "called"],
                         result |-> [w \in Workers |->
                                        [success |-> FALSE, error_message |-> NoError]],
                         replaced |-> FALSE]
    /\ fs = NoVolume
    /\ ExOff
    /\ DupOff
    /\ LfOff
    /\ DelOff
    /\ BatchOff
    /\ MvOff
    /\ PanelOff
    /\ TokensGiven

SpecRace == InitRace /\ [][RaceNext]_vars

\* the discovery panel, with no scan started
InitPanel ==
    /\ PanelOff
    /\ fs = NoVolume
    /\ ExOff
    /\ DupOff
    /\ LfOff
    /\ DelOff
    /\ BatchOff
    /\ MvOff
    /\ RaceOff
    /\ TokensGiven

SpecPanel == InitPanel /\ [][PanelNext]_vars

\* the threads are scheduled, a walk comes to its end, and the main loop
\* runs the callbacks handed to it; the user need not click anything
SpecPanelFair ==
    /\ InitPanel
    /\ [][PanelNext]_vars
    /\ \A k \in Kinds : \A i \in 1..MaxScans :
           /\ WF_vars(ScanBegin(k, i))
           /\ WF_vars(ScanCompletes(k, i))
           /\ WF_vars(ThreadEnd(k, i))
    /\ WF_vars(RunAfter)

----------------------------------------------------------------------------
(* Properties *)

Floor == 1048576

\* the paths of the members of the groups of a result
MemberPaths(result) ==
    UNION { { result[i].files[j].path : j \in 1..Len(result[i].files) } : i \in 1..Len(result) }

\* C1: no file whose size is below 1 MiB (1048576 bytes) is handed to hash_file,
\* sits in a bucket, or is a member of a returned group, whether the scan ran
\* to its end or was cancelled.
C1_NoFileBelowFloor ==
    /\ \A p \in dup_log.hashed : FileAt(p).st_size >= Floor
    /\ \A p \in MemberPaths(hash_groups) : FileAt(p).st_size >= Floor
    /\ \A i \in 1..Len(dup_result) : \A j \in 1..Len(dup_result[i].files) :
           /\ dup_result[i].files[j].size_bytes >= Floor
           /\ FileAt(dup_result[i].files[j].path).st_size >= Floor

\* two files of the same bytes, both just below the floor, were walked, and
\* the scan returned groups
C1_Witness ==
    /\ dup_pc = "done"
    /\ Len(dup_result) > 0
    /\ \E p \in VariedFiles : \E q \in VariedFiles :
           /\ p # q
           /\ FileAt(p).st_size = Floor - 1
           /\ FileAt(q) = FileAt(p)
           /\ FileAt(p).access = "ok"
           /\ ~IsExcluded(p) /\ ~IsExcluded(q)

\* C2: every returned group has at least two members and its wasted space is
\* size x (members - 1); a bucket of fewer than two members is not returned,
\* whether the scan ran to its end or was cancelled.
C2_GroupsOfTwoOrMore ==
    /\ \A i \in 1..Len(dup_result) :
           /\ Len(dup_result[i].files) >= 2
           /\ get_wasted_space(dup_result[i])
                = dup_result[i].size_bytes * (Len(dup_result[i].files) - 1)
    /\ dup_pc = "done" =>
           \A b \in 1..Len(hash_groups) :
               Len(hash_groups[b].files) < 2 =>
                   \A i \in 1..Len(dup_result) :
                       dup_result[i].file_hash # hash_groups[b].file_hash

\* a cancelled scan returned groups and dropped a bucket of one file
C2_Witness ==
    /\ dup_pc = "done"
    /\ dup_log.observed
    /\ Len(dup_result) > 0
    /\ \E b \in 1..Len(hash_groups) : Len(hash_groups[b].files) = 1

\* where digest h was first seen: its rank among the keys of hash_groups
FirstSeen(h) == CHOOSE b \in 1..Len(hash_groups) : hash_groups[b].file_hash = h

Wasted(g) == g.size_bytes * (Len(g.files) - 1)

\* C3: the returned groups are in descending order of wasted space, and groups
\* of equal wasted space are in the order in which their digests were first seen.
C3_SortedByWasted ==
    dup_pc = "done" =>
        \A i \in 1..(Len(dup_result) - 1) :
            \/ Wasted(dup_result[i]) > Wasted(dup_result[i + 1])
            \/ /\ Wasted(dup_result[i]) = Wasted(dup_result[i + 1])
               /\ FirstSeen(dup_result[i].file_hash) < FirstSeen(dup_result[i + 1].file_hash)

\* the sort moved a group seen later in front of groups seen earlier, and the
\* result holds groups of equal wasted space
C3_Witness ==
    /\ dup_pc = "done"
    /\ \E i \in 1..(Len(dup_result) - 1) :
           /\ Wasted(dup_result[i]) > Wasted(dup_result[i + 1])
           /\ FirstSeen(dup_result[i].file_hash) > FirstSeen(dup_result[i + 1].file_hash)
    /\ \E i \in 1..(Len(dup_result) - 1) :
           Wasted(dup_result[i]) = Wasted(dup_result[i + 1])

\* C4: every record returned by scan_large_files has a size of at least the
\* requested threshold, and the records are in descending order of size,
\* whether the scan ran to its end or was cancelled.
C4_LargeFilesSorted ==
    /\ \A i \in 1..Len(large_files) : large_files[i].size_bytes >= threshold_mb * Floor
    /\ \A i \in 1..Len(lf_result) :
           /\ lf_result[i].size_bytes >= threshold_mb * Floor
           /\ FileAt(lf_result[i].path).st_size >= threshold_mb * Floor
    /\ \A i \in 1..(Len(lf_result) - 1) :
           lf_result[i].size_bytes >= lf_result[i + 1].size_bytes

\* a cancelled scan returned records that it had found in another order, having
\* passed over a file one byte below the threshold
C4_Witness ==
    /\ lf_pc = "done"
    /\ lf_log.observed
    /\ Len(lf_result) >= 2
    /\ lf_result # large_files
    /\ \E p \in lf_log.examined : FileAt(p).st_size = threshold_mb * Floor - 1

C6_AtMostOneFileAfterSet == dup_log.examinedAfterSet <= 1

\* the proper ancestors of path p, the root of the walk included
Ancestors(p) == { SubSeq(p, 1, n) : n \in 1..(Len(p) - 1) }

\* p is excluded, or lies under a directory that is
UnderExcluded(p) == IsExcluded(p) \/ \E d \in Ancestors(p) : IsExcluded(d)

\* the files of the volume that are excluded or lie under an excluded directory
ExcludedFiles == { p \in AllFiles : UnderExcluded(p) }

ExcludedDirs == { d \in AllDirs : IsExcluded(d) }

\* C7: in both scans no directory that _should_exclude_path excludes is
\* descended into, and no file that is excluded or lies under such a directory
\* is counted, hashed or present in a result.
C7_ExcludedNeverVisited ==
    /\ \A d \in ExcludedDirs : d \notin dup_log.walked /\ d \notin lf_log.walked
    /\ \A p \in ExcludedFiles :
           /\ p \notin dup_log.counted
           /\ p \notin dup_log.hashed
           /\ p \notin lf_log.examined
           /\ \A b \in 1..Len(hash_groups) : \A j \in 1..Len(hash_groups[b].files) :
                  hash_groups[b].files[j].path # p
           /\ \A i \in 1..Len(dup_result) : \A j \in 1..Len(dup_result[i].files) :
                  dup_result[i].files[j].path # p
           /\ \A i \in 1..Len(large_files) : large_files[i].path # p
           /\ \A i \in 1..Len(lf_result) : lf_result[i].path # p

\* a completed duplicate scan returned the group of the 2 MiB files that
\* x.bin duplicates; x.bin, whose own path is not excluded, lies under .gradle
C7_Witness ==
    /\ dup_pc = "done"
    /\ ~dup_cancel
    /\ ~IsExcluded(XBin)
    /\ IsExcluded(GradleDir)
    /\ ExcludedFiles # {}
    /\ \E i \in 1..Len(dup_result) :
           /\ dup_result[i].file_hash = FileAt(XBin).md5
           /\ \A j \in 1..Len(dup_result[i].files) : dup_result[i].files[j].path # XBin

\* the files the duplicate scan is to consider: not excluded, under no
\* excluded directory, 1 MiB or more
Candidates == { p \in AllFiles : ~UnderExcluded(p) /\ FileAt(p).st_size >= Floor }

InSameGroup(p, q) ==
    \E i \in 1..Len(dup_result) : {p, q} \subseteq MemberPaths(<<dup_result[i]>>)

Occurrences(p) ==
    Cardinality({ <<i, j>> \in (1..Len(dup_result)) \X (1..(NumFiller + 4)) :
                    j <= Len(dup_result[i].files) /\ dup_result[i].files[j].path = p })

\* C9: when the scan is not cancelled and every candidate is readable, two
\* candidates are members of the same group exactly when they have the same
\* digest, every candidate that shares its digest is in the result, and no
\* path occurs twice in the result.
C9_GroupsAreDigestClasses ==
    (/\ dup_pc = "done"
     /\ ~dup_cancel
     /\ \A p \in Candidates : FileAt(p).access = "ok")
    =>
    /\ \A p \in Candidates : \A q \in Candidates :
           p # q => (InSameGroup(p, q) <=> FileAt(p).md5 = FileAt(q).md5)
    /\ \A p \in Candidates :
           (\E q \in Candidates : q # p /\ FileAt(q).md5 = FileAt(p).md5)
               => Occurrences(p) = 1
    /\ \A p \in MemberPaths(dup_result) : Occurrences(p) = 1 /\ p \in Candidates

\* an uncancelled scan of a readable volume returned a group of three files
\* among others
C9_Witness ==
    /\ dup_pc = "done"
    /\ ~dup_cancel
    /\ \A p \in Candidates : FileAt(p).access = "ok"
    /\ Len(dup_result) >= 2
    /\ \E i \in 1..Len(dup_result) : Len(dup_result[i].files) = 3

----------------------------------------------------------------------------
(* Properties of _should_exclude_path *)

\* two characters that are equal, or the two cases of one letter
SameIgnoringCase(c1, c2) ==
    \/ c1 = c2
    \/ \E i \in 1..26 : {c1, c2} = {UpperLetters[i], LowerLetters[i]}

\* sub occurs in s when case is ignored
ContainsIgnoringCase(s, sub) ==
    \E i \in 0..(Len(s) - Len(sub)) :
        \A k \in 1..Len(sub) : SameIgnoringCase(s[i + k], sub[k])

InExcludedTree(p) ==
    \E e \in 1..Len(EXCLUDED_PATHS) : ContainsIgnoringCase(PathStr(p), EXCLUDED_PATHS[e])

\* the text of s behind its last backslash
RECURSIVE AfterLastBackslash(_)
AfterLastBackslash(s) ==
    IF s = <<>> \/ s[Len(s)] = "\\" THEN <<>>
    ELSE AfterLastBackslash(SubSeq(s, 1, Len(s) - 1)) \o <<s[Len(s)]>>

Marked(text) == Len(text) > 0 /\ text[1] \in {".", "$"}

\* C8 as stated: the result is true exactly when the path contains an excluded
\* directory, case ignored, or any of its components begins with "." or "$".
C8_AnyComponent ==
    ex_pc = "done" =>
        (ex_result <=> (\/ InExcludedTree(ex_path)
                        \/ \E i \in 2..Len(ex_path) : Marked(PartChars(ex_path[i]))))

\* C8, amended: the result is true exactly when the path contains an excluded
\* directory, case ignored, or its last component begins with "." or "$".
C8_LastComponent ==
    ex_pc = "done" =>
        (ex_result <=> (\/ InExcludedTree(ex_path)
                        \/ Marked(AfterLastBackslash(PathStr(ex_path)))))

\* the call returned false for a path with a marked component that is not the last
C8_Witness ==
    /\ ex_pc = "done"
    /\ ~ex_result
    /\ \E i \in 2..(Len(ex_path) - 1) : Marked(PartChars(ex_path[i]))

\* what exists once call i of the run has returned
DelAfter(i) == IF i < Len(del_hist) THEN del_hist[i + 1].before ELSE del_fs

\* C10: delete_folder on a path that does not exist returns success, no error
\* and 0 bytes freed and leaves everything that exists in place; and once a
\* delete_folder(p) has returned success, a later delete_folder(p) returns
\* success with 0 bytes freed.
C10_MissingIsNoOpAndIdempotent ==
    \A i \in 1..Len(del_hist) :
        /\ del_hist[i].path \notin del_hist[i].before =>
               /\ del_hist[i].success
               /\ del_hist[i].error_message = << >>
               /\ del_hist[i].bytes_freed = 0
               /\ DelAfter(i) = del_hist[i].before
        /\ \A j \in (i + 1)..Len(del_hist) :
               (del_hist[i].success /\ del_hist[j].path = del_hist[i].path) =>
                   /\ del_hist[j].success
                   /\ del_hist[j].bytes_freed = 0

\* a folder with content was deleted with success, bytes were freed, and the
\* same folder was deleted again
C10_Witness ==
    \E i \in 1..Len(del_hist) : \E j \in (i + 1)..Len(del_hist) :
        /\ del_hist[i].path \in del_hist[i].before
        /\ del_hist[i].success
        /\ del_hist[i].bytes_freed > 0
        /\ del_hist[j].path = del_hist[i].path
        /\ del_hist[j].path \notin del_hist[j].before

\* C11: delete_folder on a path that exists and is not a directory returns
\* failure with the error "Path is not a directory" and 0 bytes freed, and
\* leaves the file, and everything else, in place.
C11_FileIsRefused ==
    \A i \in 1..Len(del_hist) :
        (del_hist[i].path \in del_hist[i].before /\ del_hist[i].path \in DelFiles) =>
            /\ ~del_hist[i].success
            /\ del_hist[i].error_message = <<"Path is not a directory">>
            /\ del_hist[i].bytes_freed = 0
            /\ del_hist[i].path \in DelAfter(i)
            /\ DelAfter(i) = del_hist[i].before

\* delete_folder was called on the regular file y.bin
C11_Witness ==
    \E i \in 1..Len(del_hist) :
        /\ del_hist[i].path = YBin
        /\ YBin \in del_hist[i].before
        /\ ~del_hist[i].success

\* the sum of the sizes of a set of files
RECURSIVE TotalSize(_)
TotalSize(files) ==
    IF files = {} THEN 0
    ELSE LET f == CHOOSE x \in files : TRUE
         IN  DelSize(f) + TotalSize(files \ {f})

\* the files that existed under folder p when call i started
FilesUnderBefore(i, p) ==
    { q \in del_hist[i].before \cap DelFiles : IsUnder(q, p) }

\* C12: when delete_folder succeeds on an existing directory, the bytes freed
\* are the sum of the sizes of the files under it whose stat succeeds, as they
\* were before the removal started.
C12_BytesMeasuredBefore ==
    \A i \in 1..Len(del_hist) :
        (/\ del_hist[i].path \in del_hist[i].before
         /\ del_hist[i].path \in DelDirs
         /\ del_hist[i].success) =>
            del_hist[i].bytes_freed =
                TotalSize(FilesUnderBefore(i, del_hist[i].path) \ del_unreadable)

\* a folder holding a file whose stat fails was deleted with success: the tree
\* is gone and the bytes freed are those of the other files
C12_Witness ==
    \E i \in 1..Len(del_hist) :
        /\ del_hist[i].path \in del_hist[i].before
        /\ del_hist[i].success
        /\ del_hist[i].bytes_freed > 0
        /\ FilesUnderBefore(i, del_hist[i].path) \cap del_unreadable # {}
        /\ FilesUnderBefore(i, del_hist[i].path) \cap DelAfter(i) = {}

\* the bytes of the files that call i removed
RemovedBytes(i) == TotalSize((del_hist[i].before \ DelAfter(i)) \cap DelFiles)

\* the bytes of the files removed since the run started
RemovedBytesInAll == TotalSize((DelFiles \ del_fs))

\* C13: whatever way a delete_folder ends, the bytes freed it reports are the
\* bytes of the files it removed, and the total of a batch is the bytes the
\* batch removed.
C13_ReportedIsRemoved ==
    /\ \A i \in 1..Len(del_hist) : del_hist[i].bytes_freed = RemovedBytes(i)
    /\ batch_pc = "done" => results.total_bytes_freed = RemovedBytesInAll

\* the hint of the tool table for the folders of the runs
TableHint(p) ==
    CASE p \in {GradleDir, GradleDataDir} ->
             "Try closing Android Studio and stopping Gradle daemons (run 'gradlew --stop' in your project)."
      [] p = NpmDir -> "Try closing any running Node.js processes or IDEs."
      [] OTHER -> "Try closing applications that might be using these files."

\* the removal primitive reported the whole tree removed
PrimitiveSucceeded(i) ==
    \/ del_hist[i].outcome \in {"rc0", "ok", "ok_late"}
    \/ del_hist[i].outcome = "cannot_find" /\ del_hist[i].path \notin DelAfter(i)

\* C14: a failure carries an error message and 0 bytes freed, a success carries
\* no error; after a permission or lock failure the message holds the hint of
\* the tool table for the path, the generic one when no tool matches; and the
\* success flag and the bytes freed are decided by the path and by how the
\* removal ended, not by the hint, and a finished batch has processed every item.
C14_ResultsWellFormed ==
    /\ \A i \in 1..Len(del_hist) :
           /\ del_hist[i].success => del_hist[i].error_message = << >>
           /\ ~del_hist[i].success =>
                  /\ del_hist[i].error_message # << >>
                  /\ \A n \in 1..Len(del_hist[i].error_message) :
                         del_hist[i].error_message[n] # ""
                  /\ del_hist[i].bytes_freed = 0
           /\ del_hist[i].outcome \in {"denied", "PermissionError"} =>
                  /\ ~del_hist[i].success
                  /\ del_hist[i].error_message =
                         <<"Some files are locked. ", TableHint(del_hist[i].path)>>
           /\ del_hist[i].success <=>
                  \/ del_hist[i].path \notin del_hist[i].before
                  \/ del_hist[i].path \in DelDirs /\ PrimitiveSucceeded(i)
    /\ batch_pc = "done" => Len(del_hist) = Len(folders)

\* a batch whose first item failed on a file in use, with the hint of a tool
\* or the generic one, and whose second item was processed all the same
C14_Witness ==
    /\ batch_pc = "done"
    /\ Len(del_hist) = 2
    /\ del_hist[1].outcome \in {"denied", "PermissionError"}
    /\ del_hist[1].path = GradleDir
    /\ del_hist[2].outcome \in {"denied", "PermissionError"}
    /\ del_hist[2].path = DataDir

\* C15: on either platform a removal that runs beyond the 300 seconds is
\* abandoned: delete_folder returns a failure with the timeout message and 0
\* bytes freed.
C15_LateRemovalIsTimeout ==
    \A i \in 1..Len(del_hist) :
        del_hist[i].exceeded =>
            /\ ~del_hist[i].success
            /\ del_hist[i].error_message =
                   <<"Deletion timed out. The folder may be very large or files may be locked.">>
            /\ del_hist[i].bytes_freed = 0

\* the items of the batch whose delete_folder failed, in the order of the list
FailedItems ==
    SelectSeq([i \in 1..Len(del_hist) |-> i], LAMBDA i : ~del_hist[i].success)

\* C16: a batch attempts every item, whatever failed before it; for N items
\* of which K fail it returns success_count = N - K, failed_count = K and one
\* error entry (name, message) per failed item, in the order of the list; and
\* all along success_count + failed_count is the number of items finished.
C16_BatchCounts ==
    /\ results.success_count + results.failed_count = Len(del_hist)
    /\ batch_pc = "done" =>
           /\ Len(del_hist) = Len(folders)
           /\ \A i \in 1..Len(folders) : del_hist[i].path = folders[i].full_path
           /\ results.failed_count = Len(FailedItems)
           /\ results.success_count = Len(folders) - Len(FailedItems)
           /\ results.errors =
                  [j \in 1..Len(FailedItems) |->
                      [folder |-> folders[FailedItems[j]].name,
                       error |-> del_hist[FailedItems[j]].error_message]]

\* a finished batch of two whose first item failed and whose second was deleted
C16_Witness ==
    /\ batch_pc = "done"
    /\ Len(folders) = 2
    /\ ~del_hist[1].success
    /\ del_hist[2].success
    /\ del_hist[2].bytes_freed > 0
    /\ results.failed_count = 1

\* what the batch log holds once item i is done with, callback given
EventsOfItem(i) ==
    << [ev |-> "callback", folder |-> folders[i], idx |-> i, total |-> Len(folders)],
       [ev |-> "start", idx |-> i],
       [ev |-> "end", idx |-> i] >>

RECURSIVE EventsUpTo(_)
EventsUpTo(n) == IF n = 0 THEN << >> ELSE EventsUpTo(n - 1) \o EventsOfItem(n)

\* C17: the batch deletes one item at a time in the order of the list: item i
\* has returned before item j > i starts, and the callback for item i comes
\* exactly once, after item i - 1 has finished and before the deletion of item
\* i starts, with total = N.
C17_OneAtATimeInOrder ==
    (batch_pc # "off" /\ progress_callback) =>
        /\ Len(batch_log) <= 3 * Len(folders)
        /\ batch_log = SubSeq(EventsUpTo(Len(folders)), 1, Len(batch_log))
        /\ batch_pc = "done" => Len(batch_log) = 3 * Len(folders)

\* a batch of two came to its end with a callback given
C17_Witness ==
    /\ batch_pc = "done"
    /\ progress_callback
    /\ Len(folders) = 2
    /\ Len(batch_log) = 6

\* what the paths are once call i of move_file has returned
MvAfter(i) == IF i < Len(mv_hist) THEN mv_hist[i + 1].before ELSE mv_fs

\* destination / source.name of call i
MvDestFile(i) == DestFile(mv_hist[i].source, mv_hist[i].destination)

\* C18: move_file of a file into a directory that already holds a file of the
\* same name returns failure with "Destination file already exists" and leaves
\* the source and the file at the destination as they were.
C18_ExistingDestinationKept ==
    \A i \in 1..Len(mv_hist) :
        (/\ mv_hist[i].before[mv_hist[i].source].kind = "file"
         /\ mv_hist[i].before[mv_hist[i].destination].kind = "dir"
         /\ mv_hist[i].before[MvDestFile(i)].kind = "file") =>
            /\ ~mv_hist[i].success
            /\ mv_hist[i].error_message = <<"Destination file already exists">>
            /\ MvAfter(i)[mv_hist[i].source] = mv_hist[i].before[mv_hist[i].source]
            /\ MvAfter(i)[MvDestFile(i)] = mv_hist[i].before[MvDestFile(i)]

\* a file was moved to where a file of its name, with other content, was
C18_Witness ==
    \E i \in 1..Len(mv_hist) :
        /\ mv_hist[i].before[mv_hist[i].source].kind = "file"
        /\ mv_hist[i].before[MvDestFile(i)] = [kind |-> "file", content |-> "old"]
        /\ ~mv_hist[i].success

\* C19: a move_file that returns success leaves no source and the source's
\* content at destination / name; one that returns failure, wherever it
\* failed, leaves the source as it was; and the source is never gone without
\* its whole content being at the destination.
C19_AllOrNothing ==
    \A i \in 1..Len(mv_hist) :
        /\ mv_hist[i].success =>
               /\ mv_hist[i].before[mv_hist[i].source].kind = "file"
               /\ MvAfter(i)[mv_hist[i].source].kind = "absent"
               /\ MvAfter(i)[MvDestFile(i)] = mv_hist[i].before[mv_hist[i].source]
        /\ ~mv_hist[i].success =>
               MvAfter(i)[mv_hist[i].source] = mv_hist[i].before[mv_hist[i].source]
        /\ (/\ mv_hist[i].before[mv_hist[i].source].kind = "file"
            /\ MvAfter(i)[mv_hist[i].source].kind = "absent") =>
               MvAfter(i)[MvDestFile(i)] = mv_hist[i].before[mv_hist[i].source]

\* a move failed in the middle of its copy, leaving part of a file at the
\* destination, and a later move of the same file went through by copy and unlink
C19_Witness ==
    \E i \in 1..Len(mv_hist) : \E j \in (i + 1)..Len(mv_hist) :
        /\ mv_hist[i].outcome = "copy_fails_partial"
        /\ ~mv_hist[i].success
        /\ mv_hist[j].source = mv_hist[i].source
        /\ mv_hist[j].outcome = "copy_unlink"
        /\ mv_hist[j].success

\* C20: with a duplicate scan and a large-file scan on one scanner, however
\* each was called (with a cancel_event of its own or with none), no step of
\* one scan (its start, its walk, its cancellation, its end) sets or clears
\* the token the other scan polls.
C20_TokensIndependent ==
    [][/\ DupNext => (LfTokenSet' = LfTokenSet)
       /\ LfNext => (DupTokenSet' = DupTokenSet)]_vars

\* the deletions of the batch that had ended when the event at position j of
\* the batch log was made
EndsBefore(j) ==
    Cardinality({ i \in 1..(j - 1) : batch_log[i].ev = "end" })

\* C26: the second argument of every progress callback of delete_folders_batch
\* (the docstring's "completed") is the number of items whose deletion has
\* already ended when the callback is made: 0 at the first callback, and never
\* more than the number of finished deletions.
C26_CompletedIsFinished ==
    \A j \in 1..Len(batch_log) :
        batch_log[j].ev = "callback" => batch_log[j].idx = EndsBefore(j)

\* the size delete_folder would measure for the path of call i just before the
\* call: the files under it whose stat succeeds, 0 for a path that is missing
\* or not a directory
MeasuredBefore(i) ==
    IF del_hist[i].path \in del_hist[i].before /\ del_hist[i].path \in DelDirs
    THEN TotalSize(FilesUnderBefore(i, del_hist[i].path) \ del_unreadable)
    ELSE 0

RECURSIVE SumOfSuccessful(_)
\* the sum of MeasuredBefore over the successful calls among the first n
SumOfSuccessful(n) ==
    IF n = 0 THEN 0
    ELSE SumOfSuccessful(n - 1) + (IF del_hist[n].success THEN MeasuredBefore(n) ELSE 0)

\* C24: all along a batch, total_bytes_freed is the sum, over the items that
\* succeeded, of the folder's size measured just before that item's removal;
\* an item whose path is gone when its turn comes (listed twice, or under an
\* earlier item) succeeds and adds 0; and no file is measured by two
\* successful items.
C24_TotalIsSumOfMeasured ==
    /\ results.total_bytes_freed = SumOfSuccessful(Len(del_hist))
    /\ \A i \in 1..Len(del_hist) :
           /\ ~del_hist[i].success => del_hist[i].bytes_freed = 0
           /\ del_hist[i].success => del_hist[i].bytes_freed = MeasuredBefore(i)
           /\ del_hist[i].path \notin del_hist[i].before =>
                  del_hist[i].success /\ del_hist[i].bytes_freed = 0
    /\ \A f \in DelFiles \ del_unreadable :
           Cardinality({ i \in 1..Len(del_hist) :
                            /\ del_hist[i].success
                            /\ del_hist[i].path \in del_hist[i].before
                            /\ f \in FilesUnderBefore(i, del_hist[i].path) }) <= 1

\* a finished batch of .gradle\data and then .gradle, both deleted with bytes
\* freed, the second measured without the files the first had removed
C24_Witness ==
    /\ batch_pc = "done"
    /\ Len(del_hist) = 2
    /\ del_hist[1].path = GradleDataDir
    /\ del_hist[2].path = GradleDir
    /\ del_hist[1].success /\ del_hist[1].bytes_freed > 0
    /\ del_hist[2].success /\ del_hist[2].bytes_freed > 0
    /\ results.total_bytes_freed = del_hist[1].bytes_freed + del_hist[2].bytes_freed
    /\ XBin \notin del_hist[2].before

\* the files of the volume on which stat fails, or open or read fails
Faulty == { p \in AllFiles : FileAt(p).access # "ok" }

\* the files a complete duplicate scan has to process: reached by the walk,
\* readable, 1 MiB or more
DupDue == { p \in AllFiles : ~UnderExcluded(p) /\ FileAt(p).access = "ok"
                              /\ FileAt(p).st_size >= MinDupSize }

\* the same for the large-file scan and its threshold
LargeDue == { p \in AllFiles : ~UnderExcluded(p) /\ FileAt(p).access # "nostat"
                                /\ FileAt(p).st_size >= threshold_bytes }

\* the number of files in the buckets
RECURSIVE BucketTotal(_, _)
BucketTotal(groups, n) ==
    IF n = 0 THEN 0 ELSE BucketTotal(groups, n - 1) + Len(groups[n].files)

\* C21: a file on which stat fails, or which cannot be opened or read, never
\* fails a scan: it is in no bucket, no group and no list, it is not counted
\* as processed, and a scan that is not cancelled returns having processed
\* every other qualifying file.
C21_FileErrorsSkipped ==
    /\ \A p \in Faulty :
           /\ p \notin MemberPaths(hash_groups)
           /\ p \notin MemberPaths(dup_result)
    /\ \A p \in { q \in AllFiles : FileAt(q).access = "nostat" } :
           /\ p \notin dup_log.counted
           /\ \A i \in 1..Len(large_files) : large_files[i].path # p
           /\ \A i \in 1..Len(lf_result) : lf_result[i].path # p
    /\ processed_count = BucketTotal(hash_groups, Len(hash_groups))
    /\ lf_processed = Len(large_files)
    /\ (dup_pc = "done" /\ ~dup_log.observed) =>
           /\ MemberPaths(hash_groups) = DupDue
           /\ processed_count = Cardinality(DupDue)
    /\ (lf_pc = "done" /\ ~lf_log.observed) =>
           /\ { lf_result[i].path : i \in 1..Len(lf_result) } = LargeDue
           /\ lf_processed = Cardinality(LargeDue)

\* a duplicate scan ran to its end on a volume where stat fails on one file of
\* 2 MiB and another cannot be read, and returned the groups of the others
C21_Witness ==
    /\ dup_pc = "done"
    /\ ~dup_log.observed
    /\ \E p \in VariedFiles : FileAt(p).access = "nostat" /\ ~UnderExcluded(p)
    /\ \E p \in VariedFiles : FileAt(p).access = "noread" /\ ~UnderExcluded(p)
                               /\ p \in dup_log.hashed
    /\ Len(dup_result) > 0
    /\ processed_count = Cardinality(DupDue)

\* the phase of scan_duplicates a position stands for
DupPhase(pc) ==
    CASE pc \in {"off", "called"} -> "Idle"
      [] pc = "count" -> "Counting"
      [] pc \in {"hash", "file"} -> "Hashing"
      [] pc = "done" -> "Ended"

\* C22: scan_duplicates goes Idle, Counting, Hashing, ended (completed or
\* cancelled), one phase after the other; before Counting is over no file is
\* hashed and no callback made; the callbacks made so far are, in order,
\* (50, total), (100, total), ... up to the processed count, total being the
\* count of the first pass; and those of scan_large_files are (25, 0),
\* (50, 0), ... up to the number of qualifying files found.
C22_PhasesAndCadence ==
    /\ [](/\ DupPhase(dup_pc) \in {"Idle", "Counting"} =>
                /\ dup_log.hashed = {}
                /\ dup_log.callbacks = << >>
                /\ processed_count = 0
                /\ hash_groups = << >>
          /\ DupPhase(dup_pc) \in {"Hashing", "Ended"} =>
                file_count = Cardinality(dup_log.counted)
          /\ dup_log.callbacks =
                [k \in 1..(processed_count \div 50) |-> <<50 * k, file_count>>]
          /\ lf_log.callbacks =
                [k \in 1..(lf_processed \div 25) |-> <<25 * k, 0>>])
    /\ [][/\ <<DupPhase(dup_pc), DupPhase(dup_pc')>> \in
                { <<"Idle", "Idle">>, <<"Idle", "Counting">>,
                  <<"Counting", "Counting">>, <<"Counting", "Hashing">>,
                  <<"Hashing", "Hashing">>, <<"Hashing", "Ended">>,
                  <<"Ended", "Ended">> }
          /\ DupPhase(dup_pc) = "Hashing" => file_count' = file_count]_vars

\* a duplicate scan ended having made its callback at the 50th file with the
\* total of the first pass above 50
C22_Witness ==
    /\ dup_pc = "done"
    /\ dup_log.callbacks = << <<50, file_count>> >>
    /\ file_count > 50
    /\ processed_count > 50

\* a large-file scan ended having made its callbacks at the 25th and the 50th
\* qualifying file
C22_WitnessLarge ==
    /\ lf_pc = "done"
    /\ lf_log.callbacks = << <<25, 0>>, <<50, 0>> >>
    /\ lf_processed > 50

\* C23: in every group scan_duplicates returns, every member has the size the
\* group gives as size_bytes, also on a volume whose files are rewritten,
\* deleted or created while the scan runs.
C23_MembersOfOneSize ==
    \A i \in 1..Len(dup_result) : \A j \in 1..Len(dup_result[i].files) :
        dup_result[i].files[j].size_bytes = dup_result[i].size_bytes

\* C27: every progress callback of scan_duplicates carries a processed count
\* that is at most the total, whatever happens to the volume between the
\* first pass and the second.
C27_ProcessedAtMostTotal ==
    \A k \in 1..Len(dup_log.callbacks) :
        dup_log.callbacks[k][1] <= dup_log.callbacks[k][2]

\* C25: of two calls of move_file running at once on different sources of
\* the same file name into one destination folder, with another program
\* writing the folder at any moment, at most one returns success and no file
\* that was at the destination is replaced.
C25_NoOverwriteUnderRace ==
    mv_race.on =>
        /\ ~mv_race.replaced
        /\ ~(\A w \in Workers :
                mv_race.pc[w] = "returned" /\ mv_race.result[w].success)

\* the scans of a kind the panel has started whose completion or error
\* handler has not run and whose thread has not ended without one
InFlight(k) ==
    { i \in 1..Len(threads[k]) :
        threads[k][i].pc \in {"start", "scan", "returned", "raised", "posted"} }

\* C28: a scan whose token was set by Cancel after its thread was started,
\* before its first statement included, does not run to its end and deliver
\* its results to the completion handler.
C28_CancelNotLost ==
    \A k \in Kinds : \A i \in 1..Len(threads[k]) :
        threads[k][i].requested => ~threads[k][i].delivered

\* C29: at most one scan of each kind is in flight, and while one is, the
\* button of its kind and Scan Both are disabled.
C29_OneScanPerKind ==
    \A k \in Kinds :
        /\ Cardinality(InFlight(k)) <= 1
        /\ InFlight(k) # {} =>
              /\ btn[ButtonOf(k)] = "disabled"
              /\ btn["scan_both_btn"] = "disabled"

\* C30: once a scan has been started, the panel comes back to the three scan
\* buttons enabled and the progress frame hidden, whether the scan finishes,
\* fails or is cancelled.
C30_PanelRecovers ==
    (\E k \in Kinds : threads[k] # << >>)
        ~> (/\ \A b \in Buttons : btn[b] = "normal"
            /\ ~progress_frame)

====
